---- MODULE Spec2Model ----
(***************************************************************************)
(* Model of the az-rpms power-management function app: the schedule        *)
(* evaluator (helpers.py) and the periodic scan that turns schedule tags   *)
(* into power actions (function_app.py).                                   *)
(*                                                                         *)
(* Text is modelled as sequences of one-character strings, so validation,  *)
(* splitting, int parsing and cron formatting are computed, not assumed.   *)
(* Time is a count of sub-minute units since 1970-01-01 00:00 on the       *)
(* deployment's local clock (Pacific/Auckland, modelled without daylight   *)
(* saving changes); an instant has sub-minute precision, a cron occurrence *)
(* lies on a minute boundary.                                              *)
(***************************************************************************)
EXTENDS Integers, Sequences, FiniteSets, TLC

(***************************************************************************)
(* Bounds of the model                                                     *)
(***************************************************************************)
\* sub-minute units per minute (the precision of datetime.now in the model)
SubMinute == 2
\* timer ticks explored after the start of a run
MaxTicks == 2
\* latest sub-minute unit, after its slot begins, at which the timer fires
MaxTimerLag == 1
\* HTTP-triggered scans explored in a run
MaxManual == 1
\* scheduled power actions sent to the workflow
MaxActions == 1
\* deferred checks waiting when a maintenance event arrives
MaxInFlight == 1
\* messages the queue host delivers a second time in a run
MaxRedeliver == 1

(***************************************************************************)
(* Text                                                                    *)
(***************************************************************************)
\* Python None among tag values and strings (no text is a 1-tuple holding a
\* 4-letter element, so None differs from every string, "" included)
None == <<"None">>

\* Python truthiness of an Optional[str]
Truthy(v) == v # None /\ v # <<>>

Digits == <<"0", "1", "2", "3", "4", "5", "6", "7", "8", "9">>

IsDigit(c) == \E i \in 1..10 : Digits[i] = c

DigitVal(c) == (CHOOSE i \in 1..10 : Digits[i] = c) - 1

\* str.split(sep) for a one-character separator: keeps empty pieces
RECURSIVE Split(_, _)
Split(s, sep) ==
    IF \A i \in 1..Len(s) : s[i] # sep
    THEN <<s>>
    ELSE LET i == CHOOSE k \in 1..Len(s) :
                      s[k] = sep /\ \A j \in 1..(k - 1) : s[j] # sep
         IN  <<SubSeq(s, 1, i - 1)>> \o Split(SubSeq(s, i + 1, Len(s)), sep)

\* the pieces of s between any of the characters in seps
RECURSIVE SplitAny(_, _)
SplitAny(s, seps) ==
    IF \A i \in 1..Len(s) : s[i] \notin seps
    THEN <<s>>
    ELSE LET i == CHOOSE k \in 1..Len(s) :
                      s[k] \in seps /\ \A j \in 1..(k - 1) : s[j] \notin seps
         IN  <<SubSeq(s, 1, i - 1)>> \o SplitAny(SubSeq(s, i + 1, Len(s)), seps)

\* the value int(s) fails with (ValueError)
BadInt == 0 - 1

\* int(s) for the texts that reach it here: decimal digits give their value,
\* anything else ('' , '-', '*', text holding '/') raises ValueError
RECURSIVE ParseIntAcc(_, _)
ParseIntAcc(s, acc) ==
    IF s = <<>> THEN acc
    ELSE IF ~IsDigit(Head(s)) THEN BadInt
    ELSE ParseIntAcc(Tail(s), 10 * acc + DigitVal(Head(s)))

ParseInt(s) == IF s = <<>> THEN BadInt ELSE ParseIntAcc(s, 0)

\* f"{n}" for a natural number
RECURSIVE IntToChars(_)
IntToChars(n) ==
    IF n < 10 THEN <<Digits[n + 1]>>
    ELSE IntToChars(n \div 10) \o <<Digits[(n % 10) + 1]>>

\* str.casefold on the letters that occur in schedule names
UpperLetters == <<"A", "B", "E", "F", "H", "N", "O", "S">>
LowerLetters == <<"a", "b", "e", "f", "h", "n", "o", "s">>

CasefoldChar(c) ==
    IF \E i \in 1..Len(UpperLetters) : UpperLetters[i] = c
    THEN LowerLetters[CHOOSE i \in 1..Len(UpperLetters) : UpperLetters[i] = c]
    ELSE c

Casefold(s) == [i \in 1..Len(s) |-> CasefoldChar(s[i])]

(***************************************************************************)
(* Weekday time-grid validation: TIME_SCHEDULE_PATTERN                     *)
(***************************************************************************)
\* ([\-\*]|0?[0-9]|1[0-9]|2[0-3])
HourPartMatches(h) ==
    \/ h = <<"-">>
    \/ h = <<"*">>
    \/ Len(h) = 1 /\ IsDigit(h[1])
    \/ Len(h) = 2 /\ h[1] = "0" /\ IsDigit(h[2])
    \/ Len(h) = 2 /\ h[1] = "1" /\ IsDigit(h[2])
    \/ Len(h) = 2 /\ h[1] = "2" /\ h[2] \in {"0", "1", "2", "3"}

\* [0-5][05]
MinutePartMatches(m) ==
    Len(m) = 2 /\ m[1] \in {"0", "1", "2", "3", "4", "5"} /\ m[2] \in {"0", "5"}

\* one slot: ([\-\*]|0?[0-9]|1[0-9]|2[0-3])(\:([0-5][05]))?
SlotMatches(tok) ==
    LET Matches(parts) ==
            \/ Len(parts) = 1 /\ HourPartMatches(parts[1])
            \/ /\ Len(parts) = 2
               /\ HourPartMatches(parts[1])
               /\ MinutePartMatches(parts[2])
    IN  Matches(Split(tok, ":"))

\* re.match(TIME_SCHEDULE_PATTERN, value): six slots each followed by ',' or
\* '/', then a seventh slot (a slot holds neither separator)
is_valid_schedule_value(value) ==
    LET Matches(toks) == Len(toks) = 7 /\ \A i \in 1..7 : SlotMatches(toks[i])
    IN  Matches(SplitAny(value, {",", "/"}))

(***************************************************************************)
(* Cron expressions, as croniter reads them: five fields                   *)
(* minute hour day-of-month month day-of-week, each a comma list of        *)
(* '*', n, a-b, each optionally with a /step (names, '?', 'L', '#' and the *)
(* 6- and 7-field forms are not modelled)                                  *)
(***************************************************************************)
NoSet == {0 - 1}

\* the values of one list item of a field with range lo..hi, NoSet if malformed
ExpandItem(item, lo, hi) ==
    LET Range(malformed, step, first, last) ==
            IF \/ malformed
               \/ step = BadInt \/ step = 0
               \/ first = BadInt \/ last = BadInt
               \/ first < lo \/ last > hi \/ first > last
            THEN NoSet
            ELSE {x \in first..last : (x - first) % step = 0}
        Parts(bySlash, byDash) ==
            Range(Len(bySlash) > 2 \/ Len(byDash) > 2,
                  IF Len(bySlash) = 2 THEN ParseInt(bySlash[2]) ELSE 1,
                  IF bySlash[1] = <<"*">> THEN lo ELSE ParseInt(byDash[1]),
                  IF bySlash[1] = <<"*">> THEN hi
                  ELSE IF Len(byDash) = 2 THEN ParseInt(byDash[2])
                  ELSE IF Len(bySlash) = 2 THEN hi
                  ELSE ParseInt(byDash[1]))
        Base(bySlash) == Parts(bySlash, Split(bySlash[1], "-"))
    IN  Base(Split(item, "/"))

\* the values of a field, NoSet if any item is malformed
ExpandField(field, lo, hi) ==
    LET Join(sets) == IF NoSet \in sets THEN NoSet ELSE UNION sets
        Items(items) ==
            Join({ExpandItem(items[i], lo, hi) : i \in 1..Len(items)})
    IN  Items(Split(field, ","))

\* expr.split(): the pieces between runs of blanks
Fields(expr) == SelectSeq(Split(expr, " "), LAMBDA f : f # <<>>)

\* the expanded expression; day-of-week 7 is Sunday, like 0
ParseCron(expr) ==
    LET Expanded(f, mins, hours, doms, months, dows) ==
            IF NoSet \in {mins, hours, doms, months, dows}
            THEN [valid |-> FALSE]
            ELSE [valid   |-> TRUE,
                  mins    |-> mins,
                  hours   |-> hours,
                  doms    |-> doms,
                  months  |-> months,
                  dows    |-> {d % 7 : d \in dows},
                  domStar |-> f[3] = <<"*">>,
                  dowStar |-> f[5] = <<"*">>]
        Parsed(f) ==
            IF Len(f) # 5
            THEN [valid |-> FALSE]
            ELSE Expanded(f, ExpandField(f[1], 0, 59), ExpandField(f[2], 0, 23),
                          ExpandField(f[3], 1, 31), ExpandField(f[4], 1, 12),
                          ExpandField(f[5], 0, 7))
    IN  IF expr = None THEN [valid |-> FALSE] ELSE Parsed(Fields(expr))

\* croniter.is_valid(value)
is_valid_cron_value(value) == ParseCron(value).valid

is_valid_powertag_value(value) ==
    is_valid_cron_value(value) \/ is_valid_schedule_value(value)

(***************************************************************************)
(* Calendar                                                                *)
(***************************************************************************)
MinutesPerDay == 24 * 60
UnitsPerDay == MinutesPerDay * SubMinute

\* an instant from a day number (days since 1970-01-01), hour, minute, units
At(day, hh, mm, u) == ((day * 24 + hh) * 60 + mm) * SubMinute + u

DayOf(t) == t \div UnitsPerDay
MinuteOfDay(t) == (t % UnitsPerDay) \div SubMinute

\* datetime.weekday(): Monday = 0 ... Sunday = 6 (1970-01-01 was a Thursday)
Weekday(day) == (day + 3) % 7

\* the day of week in cron's numbering: Sunday = 0 ... Saturday = 6
CronDow(day) == (Weekday(day) + 1) % 7

\* the civil date of a day number (proleptic Gregorian calendar)
CivilFromDays(day) ==
    LET Date(doy, mp) ==
            [dom   |-> doy - (153 * mp + 2) \div 5 + 1,
             month |-> IF mp < 10 THEN mp + 3 ELSE mp - 9]
        FromDoy(doy) == Date(doy, (5 * doy + 2) \div 153)
        FromYoe(doe, yoe) ==
            FromDoy(doe - (365 * yoe + yoe \div 4 - yoe \div 100))
        FromDoe(doe) ==
            FromYoe(doe, (doe - doe \div 1460 + doe \div 36524
                             - doe \div 146096) \div 365)
        FromZ(z) == FromDoe(z - (z \div 146097) * 146097)
    IN  FromZ(day + 719468)

\* .replace(second=0, microsecond=0)
FloorToMinute(t) == (t \div SubMinute) * SubMinute

\* whether the expanded expression c names the day: when both day fields are
\* restricted either may match (croniter's day_or), otherwise both must
DayMatches(c, day) ==
    LET Matches(date, dowOk) ==
            /\ date.month \in c.months
            /\ IF ~c.domStar /\ ~c.dowStar
               THEN date.dom \in c.doms \/ dowOk
               ELSE date.dom \in c.doms /\ dowOk
    IN  Matches(CivilFromDays(day), CronDow(day) \in c.dows)

\* whether the expanded expression c has an occurrence at instant t
Occurs(c, t) ==
    /\ t % SubMinute = 0
    /\ DayMatches(c, DayOf(t))
    /\ (MinuteOfDay(t) \div 60) \in c.hours
    /\ (MinuteOfDay(t) % 60) \in c.mins

SetMax(S) == CHOOSE x \in S : \A y \in S : y <= x

\* days searched backwards for the previous occurrence
LookbackDays == 7 + 1

\* croniter(expr, now).get_prev(datetime): the latest occurrence strictly
\* before now (an occurrence at now itself is not returned); the epoch when
\* the lookback holds none
RECURSIVE PrevFrom(_, _, _)
PrevFrom(c, now, back) ==
    LET Latest(day, ok) ==
            IF back > LookbackDays \/ day < 0 THEN 0
            ELSE IF DayMatches(c, day) /\ ok # {}
            THEN (day * MinutesPerDay + SetMax(ok)) * SubMinute
            ELSE PrevFrom(c, now, back + 1)
        Before(lim) ==
            Latest((lim \div MinutesPerDay) - back,
                   {x \in {h * 60 + m : h \in c.hours, m \in c.mins} :
                       back > 0 \/ x <= lim % MinutesPerDay})
    IN  Before((now - 1) \div SubMinute)

get_prev(expr, now) == PrevFrom(ParseCron(expr), now, 0)

(***************************************************************************)
(* helpers.py: weekday grid to cron, and the fire decision                 *)
(***************************************************************************)
Returned(v) == [raised |-> "", value |-> v]
Raised(exc) == [raised |-> exc, value |-> None]

\* a faulty variant of GridCronDow: the weekday index written as it is
GridCronDowUnshifted(current_day) == current_day % 7

\* the cron day-of-week written for weekday current_day (Monday = 0)
GridCronDow(current_day) == (current_day + 1) % 7

\* f"{minute} {hour} * * {dow}"
FormatCron(minute, hour, dow) ==
    IntToChars(minute) \o <<" ">> \o IntToChars(hour)
        \o <<" ", "*", " ", "*", " ">> \o IntToChars(dow)

\* whether a slot means "no schedule for today"
IsNoActionSlot(day_time) == day_time = <<"-">> \/ day_time = <<"*">>

\* convert_time_schedule_to_cron, evaluated at instant now
convert_time_schedule_to_cron(schedule_string, now) ==
    LET Cron(current_day, hour, minute) ==
            IF hour = BadInt \/ minute = BadInt
            THEN Raised("ValueError")
            ELSE Returned(FormatCron(minute, hour, GridCronDow(current_day)))
        Slot(current_day, day_time, parts) ==
            IF IsNoActionSlot(day_time)
            THEN Returned(None)
            ELSE Cron(current_day, ParseInt(parts[1]),
                      IF Len(parts) > 1 THEN ParseInt(parts[2]) ELSE 0)
        Today(days, current_day) ==
            IF current_day + 1 > Len(days)
            THEN Raised("IndexError")
            ELSE Slot(current_day, days[current_day + 1],
                      Split(days[current_day + 1], ":"))
    IN  IF ~is_valid_schedule_value(schedule_string)
        THEN Returned(None)
        ELSE Today(Split(schedule_string, ","), Weekday(DayOf(now)))

\* a missing last check (None) as an instant
NoTime == 0 - 1

\* datetime(1970, 1, 1)
EpochTime == 0

\* a faulty variant of LastInvocation: the last check is not floored
LastInvocationUnfloored(last_invocation) ==
    IF last_invocation # NoTime THEN last_invocation ELSE EpochTime

\* last_invocation_zoned: the last check floored to the minute, the epoch
\* when there is none
LastInvocation(last_invocation) ==
    IF last_invocation # NoTime
    THEN FloorToMinute(last_invocation)
    ELSE EpochTime

\* a faulty variant of InWindow: the last check is not compared
InWindowNoLowerBound(last_zoned, prev, now) == prev <= now

\* last_invocation_zoned <= prev_cron_event_zoned <= now_zoned
InWindow(last_zoned, prev, now) == last_zoned <= prev /\ prev <= now

\* a faulty variant of Overrides: a tie overrides too
OverridesOnTie(prev_exception, prev, now) ==
    ~(prev_exception < prev /\ prev <= now)

\* whether the opposing event's previous occurrence overrides this one
Overrides(prev_exception, prev, now) == ~(prev_exception <= prev /\ prev <= now)

\* a faulty variant of should_process_cron_event: a 'start' is decided
\* without regard to the last check and the opposing event
should_process_cron_event_by_desc(last_invocation, cron_event, event_desc, cron_event_override, now) ==
    [event      |-> event_desc,
     cron       |-> cron_event,
     override   |-> cron_event_override,
     last_check |-> last_invocation,
     now        |-> now,
     prev       |-> get_prev(cron_event, now),
     overridden |-> FALSE,
     actioning  |-> \/ event_desc = "start"
                    \/ InWindow(LastInvocation(last_invocation),
                                get_prev(cron_event, now), now)]

\* should_process_cron_event: the decision, with what the croncheck log
\* entry and its debug text carry
should_process_cron_event(last_invocation, cron_event, event_desc, cron_event_override, now) ==
    LET Entry(prev, inWindow, overridden) ==
            [event      |-> event_desc,
             cron       |-> cron_event,
             override   |-> cron_event_override,
             last_check |-> last_invocation,
             now        |-> now,
             prev       |-> prev,
             overridden |-> overridden,
             actioning  |-> inWindow /\ ~overridden]
        Decide(prev, inWindow) ==
            Entry(prev, inWindow,
                  /\ inWindow
                  /\ Truthy(cron_event_override)
                  /\ Overrides(get_prev(cron_event_override, now), prev, now))
        Check(last_zoned, prev) == Decide(prev, InWindow(last_zoned, prev, now))
    IN  Check(LastInvocation(last_invocation), get_prev(cron_event, now))

\* is_public_holiday(): New Year's Day and the day after, 2024, the national
\* holidays (holidays.country_holidays("NZ")) of the days the model visits
PublicHolidays == {19723, 19724}

is_public_holiday(now) == DayOf(now) \in PublicHolidays

(***************************************************************************)
(* function_app.py: the schedule presets                                   *)
(***************************************************************************)
\* os.getenv('ALWAYSOFF_DELAY', '4'), unset
ALWAYSOFF_DELAY == <<"4">>

CRON_WEEKDAYS_8 == <<"0", " ", "8", " ", "*", " ", "*", " ", "1", ",", "2", ",", "3", ",", "4", ",", "5">>
CRON_WEEKDAYS_18 == <<"0", " ", "1", "8", " ", "*", " ", "*", " ", "1", ",", "2", ",", "3", ",", "4", ",", "5">>
CRON_WEEKDAYS_22 == <<"0", " ", "2", "2", " ", "*", " ", "*", " ", "1", ",", "2", ",", "3", ",", "4", ",", "5">>
CRON_ALWAYSOFF == <<"0", " ", "*", "/">> \o ALWAYSOFF_DELAY \o <<" ", "*", " ", "*", " ", "*">>
CRON_HOURLY == <<"0", " ", "*", " ", "*", " ", "*", " ", "*">>
CRON_MIDNIGHT == <<"0", " ", "0", " ", "*", " ", "*", " ", "*">>

BUSINESSHOURS == <<"b", "u", "s", "i", "n", "e", "s", "s", "h", "o", "u", "r", "s">>
BUSINESSHOURSEXTENDED == BUSINESSHOURS \o <<"e", "x", "t", "e", "n", "d", "e", "d">>
ALWAYSOFF == <<"a", "l", "w", "a", "y", "s", "o", "f", "f">>
ALWAYSON == <<"a", "l", "w", "a", "y", "s", "o", "n">>
OFFATMIDNIGHT == <<"o", "f", "f", "a", "t", "m", "i", "d", "n", "i", "g", "h", "t">>
NONE_PRESET == <<"n", "o", "n", "e">>

Preset(on, off, ignoreHolidays) ==
    [found |-> TRUE, PowerOn |-> on, PowerOff |-> off,
     NO_POWERON_ON_PUBLIC_HOLIDAYS |-> ignoreHolidays]

\* POWER_SCHEDULE_CONFIGS.get(key); a missing IGNORE_PUBLIC_HOLIDAYS entry
\* reads as False
POWER_SCHEDULE_CONFIGS(key) ==
    CASE key = BUSINESSHOURS         -> Preset(CRON_WEEKDAYS_8, CRON_WEEKDAYS_18, TRUE)
      [] key = BUSINESSHOURSEXTENDED -> Preset(CRON_WEEKDAYS_8, CRON_WEEKDAYS_22, FALSE)
      [] key = ALWAYSOFF             -> Preset(None, CRON_ALWAYSOFF, FALSE)
      [] key = ALWAYSON              -> Preset(CRON_HOURLY, None, FALSE)
      [] key = OFFATMIDNIGHT         -> Preset(None, CRON_MIDNIGHT, FALSE)
      [] key = NONE_PRESET           -> Preset(None, None, FALSE)
      [] OTHER                       -> [found |-> FALSE]

(***************************************************************************)
(* Resources                                                               *)
(***************************************************************************)
\* the audit status tag _POWERMGMT_STATUS_: a fixed text, or the diagnostic
\* f"{type} {name} has invalid tag value '{value}' for {key}"
StatusText(text) == [text |-> text, resource |-> "", key |-> "", value |-> <<>>]
NoStatus == StatusText("None")
InvalidTagStatus(res, key, value) ==
    [text |-> "has invalid tag value", resource |-> res.name, key |-> key,
     value |-> value]

\* is_running of VM and AppGW
IsRunning(res) == res.power_state \in {"running", "starting"}

in_stoppable_state(res) ==
    CASE res.rtype = "pgsql" -> res.power_state \in {"ready"}
      [] res.rtype = "sftp"  -> res.power_state = "enabled"
      [] OTHER               -> IsRunning(res)

\* a faulty variant of in_startable_state: a resource that is still starting
\* counts as startable
in_startable_state_unless_running(res) ==
    CASE res.rtype = "pgsql" -> res.power_state \in {"stopped", "starting"}
      [] res.rtype = "sftp"  -> res.power_state # "enabled"
      [] OTHER               -> res.power_state # "running"

in_startable_state(res) ==
    CASE res.rtype = "pgsql" -> res.power_state \in {"stopped"}
      [] res.rtype = "sftp"  -> res.power_state # "enabled"
      [] OTHER               -> ~IsRunning(res)

\* get_tagged_resources: a resource is scanned when it carries any of
\* POWER_MGMT_TAGS
IsTagged(res) ==
    \E k \in {"PowerOn", "PowerOff", "Schedule"} : res.tags[k] # None

(***************************************************************************)
(* process_sub_from_queue: the scan of one resource                        *)
(***************************************************************************)
Resolved(power_on, power_off) ==
    [invalid |-> FALSE, diag |-> NoStatus, power_on |-> power_on,
     power_off |-> power_off]

InvalidTag(res, key, value) ==
    [invalid |-> TRUE, diag |-> InvalidTagStatus(res, key, value),
     power_on |-> None, power_off |-> None]

\* a faulty variant of HolidaySuppresses: the preset's flag is not read
HolidaySuppressesAnyPreset(schedule, now) == is_public_holiday(now)

\* whether a preset's power-on side is dropped today
HolidaySuppresses(schedule, now) ==
    schedule.NO_POWERON_ON_PUBLIC_HOLIDAYS /\ is_public_holiday(now)

\* the power-on and power-off values of a resource, or the invalid tag: a
\* Schedule tag, when present, decides alone
ResolveSchedule(res, now) ==
    LET Tagged(power_on, power_off) ==
            IF Truthy(power_off) /\ ~is_valid_powertag_value(power_off)
            THEN InvalidTag(res, "PowerOff", power_off)
            ELSE IF Truthy(power_on) /\ ~is_valid_powertag_value(power_on)
            THEN InvalidTag(res, "PowerOn", power_on)
            ELSE Resolved(power_on, power_off)
        Named(schedule_value, schedule) ==
            IF schedule.found
            THEN Resolved(IF HolidaySuppresses(schedule, now)
                          THEN None ELSE schedule.PowerOn,
                          schedule.PowerOff)
            ELSE InvalidTag(res, "Schedule", schedule_value)
    IN  IF res.tags["Schedule"] # None
        THEN Named(res.tags["Schedule"],
                   POWER_SCHEDULE_CONFIGS(Casefold(res.tags["Schedule"])))
        ELSE Tagged(res.tags["PowerOn"], res.tags["PowerOff"])

\* whether the resource opts out of power management
OptsOut(res, power_on, power_off) ==
    \/ Truthy(res.tags["_POWERMGMT_EXEMPT_"])
    \/ (power_off = None /\ power_on = None)

\* a weekday grid becomes today's cron (or None); any other value is kept
ToCron(value, now) ==
    IF Truthy(value) /\ is_valid_schedule_value(value)
    THEN convert_time_schedule_to_cron(value, now)
    ELSE Returned(value)

\* last_check as the cron checks use it
EffectiveLastCheck(last_check, reset) == IF reset THEN NoTime ELSE last_check

\* the croncheck of one direction, made only in the matching pre-state
CronCheck(cond, last_check, cron, desc, override, now) ==
    IF Truthy(cron) /\ cond
    THEN <<should_process_cron_event(last_check, cron, desc, override, now)>>
    ELSE <<>>

\* a faulty variant of ActionOf: the action is sent twice
ActionOfSentTwice(check, action) ==
    IF check # <<>> /\ check[1].actioning THEN <<action, action>> ELSE <<>>

\* the action a croncheck leads to, if it fires
ActionOf(check, action) ==
    IF check # <<>> /\ check[1].actioning THEN <<action>> ELSE <<>>

Outcome(tagWrite, enqueued, cronchecks, raised, optedOut) ==
    [tagWrite |-> tagWrite, enqueued |-> enqueued, cronchecks |-> cronchecks,
     raised |-> raised, optedOut |-> optedOut]

\* the body of the resource loop: the audit tag it writes, the actions it
\* enqueues (stop before start), its croncheck log entries, the exception it
\* ends with
ProcessResource(res, last_check, reset, now) ==
    LET Checked(stop, start) ==
            Outcome(<<>>, ActionOf(stop, "stop") \o ActionOf(start, "start"),
                    stop \o start, "", FALSE)
        Converted(last, off, on) ==
            IF off.raised # ""
            THEN Outcome(<<>>, <<>>, <<>>, off.raised, FALSE)
            ELSE IF on.raised # ""
            THEN Outcome(<<>>, <<>>, <<>>, on.raised, FALSE)
            ELSE Checked(CronCheck(in_stoppable_state(res), last, off.value,
                                   "deallocate", on.value, now),
                         CronCheck(in_startable_state(res), last, on.value,
                                   "start", off.value, now))
        Scheduled(sched) ==
            IF sched.invalid
            THEN Outcome(<<sched.diag>>, <<>>, <<>>, "", FALSE)
            ELSE IF OptsOut(res, sched.power_on, sched.power_off)
            THEN Outcome(<<>>, <<>>, <<>>, "", TRUE)
            ELSE Converted(EffectiveLastCheck(last_check, reset),
                           ToCron(sched.power_off, now),
                           ToCron(sched.power_on, now))
    IN  Scheduled(ResolveSchedule(res, now))

(***************************************************************************)
(* Inputs: tag values, resources, start instants, environment              *)
(***************************************************************************)
T_OFF_18 == <<"0", " ", "1", "8", " ", "*", " ", "*", " ", "1", "-", "5">>
T_1755 == <<"5", "5", " ", "1", "7", " ", "*", " ", "*", " ", "*">>
T_18 == <<"0", " ", "1", "8", " ", "*", " ", "*", " ", "*">>
T_ON_8 == <<"0", " ", "8", " ", "*", " ", "*", " ", "1", "-", "5">>
T_BAD_WORD == <<"o", "n">>
G_LATE == <<"2", "3", ":", "5", "5", ",", "2", "3", ":", "5", "5", ",", "-", ",", "-", ",", "-", ",", "-", ",", "-">>
G_18 == <<"1", "8", ":", "0", "0", ",", "1", "8", ":", "0", "0", ",", "1", "8", ":", "0", "0", ",", "1", "8", ":", "0", "0", ",", "1", "8", ":", "0", "0", ",", "-", ",", "*">>
G_8 == <<"8", ",", "0", "8", ":", "0", "0", ",", "8", ":", "0", "0", ",", "0", "8", ",", "8", ",", "-", ",", "-">>
G_SLASH == <<"1", "8", "/", "1", "8", "/", "1", "8", "/", "1", "8", "/", "1", "8", "/", "1", "8", "/", "1", "8">>
G_DASH_MIN == <<"-", ":", "0", "5", ",", "-", ":", "0", "5", ",", "-", ",", "-", ",", "-", ",", "-", ",", "-">>
S_MIXED_CASE == <<"B", "u", "s", "i", "n", "e", "s", "s", "H", "o", "u", "r", "s", "E", "x", "t", "e", "n", "d", "e", "d">>
S_UNKNOWN == <<"n", "i", "g", "h", "t", "s">>
V_TRUE == <<"t", "r", "u", "e">>

TagKeys ==
    {"Schedule", "PowerOn", "PowerOff", "_POWERMGMT_EXEMPT_",
     "_POWERMGMT_STATUS_", "_POWERMGMT_LASTUPDATED_"}

\* a tag map: the schedule tags and the exemption tag as given, no audit tags
Tags(schedule, on, off, exempt) ==
    [k \in TagKeys |->
        CASE k = "Schedule"                -> schedule
          [] k = "PowerOn"                 -> on
          [] k = "PowerOff"                -> off
          [] k = "_POWERMGMT_EXEMPT_"      -> exempt
          [] k = "_POWERMGMT_STATUS_"      -> NoStatus
          [] k = "_POWERMGMT_LASTUPDATED_" -> NoTime]

TagSets ==
    { Tags(None, None, T_OFF_18, None),
      Tags(None, T_18, T_1755, None),
      Tags(None, T_18, T_18, None),
      Tags(None, T_ON_8, None, None),
      Tags(None, G_8, G_18, None),
      Tags(None, None, G_LATE, None),
      Tags(None, None, G_SLASH, None),
      Tags(None, G_DASH_MIN, T_OFF_18, None),
      Tags(None, T_BAD_WORD, T_OFF_18, None),
      Tags(None, <<>>, <<>>, None),
      Tags(None, None, T_OFF_18, V_TRUE),
      Tags(None, None, T_OFF_18, <<>>),
      Tags(BUSINESSHOURS, None, None, None),
      Tags(BUSINESSHOURS, T_BAD_WORD, None, None),
      Tags(S_MIXED_CASE, None, None, None),
      Tags(OFFATMIDNIGHT, None, None, None),
      Tags(ALWAYSON, None, None, None),
      Tags(ALWAYSOFF, None, None, None),
      Tags(NONE_PRESET, None, None, None),
      Tags(S_UNKNOWN, None, T_OFF_18, None) }

ResourceTypes == {"vm"}

\* the power states a resource of a type is observed in
PowerStates(rtype) ==
    CASE rtype = "pgsql" -> {"ready", "stopped", "stopping"}
      [] rtype = "sftp"  -> {"enabled", "disabled"}
      [] OTHER           -> {"running", "deallocated"}

\* Monday 2024-01-01, a public holiday, and Monday 2024-01-08, a working day
Holiday == 19723
WorkingDay == 19730

\* the minute before the 08:00 and 18:00 events, and the slot before midnight
StartTimes ==
    {At(Holiday, 7, 59, 0), At(Holiday, 17, 59, 0), At(WorkingDay, 23, 49, 0)}

\* TRIGGER_INTERVAL (default 5) and RESET_LAST_INVOCATION (default false)
Envs ==
    { [TRIGGER_INTERVAL |-> 5, RESET_LAST_INVOCATION |-> FALSE],
      [TRIGGER_INTERVAL |-> 10, RESET_LAST_INVOCATION |-> FALSE],
      [TRIGGER_INTERVAL |-> 5, RESET_LAST_INVOCATION |-> TRUE] }

(***************************************************************************)
(* State                                                                   *)
(***************************************************************************)
VARIABLES
    now,          \* the clock
    env,          \* the app settings
    timerLast,    \* schedule_status["Last"]: when the timer last fired
    ticks,        \* timer invocations so far
    manual,       \* HTTP-triggered scans so far
    subQueue,     \* QUEUE_PROCESS_SUBS: SubscriptionCheck messages
    res,          \* the resource as the provider holds it
    eventQueue,   \* QUEUE_POWERMGMT_EVENTS: PowerAction messages
    scans,        \* scans completed so far
    scanLog,      \* what the latest scan saw and did
    prevScanNow,  \* when the scan before the latest ran, NoTime if none
    firedBefore,  \* <<event, occurrence>> pairs fired by scans before the latest
    grid,         \* a weekday grid and what convert_time_schedule_to_cron made of it
    checkQueue,   \* QUEUE_POWERMGMT_DEFERRED_CHECKS: DeferredCheck messages
    ops,          \* the provider's start/stop operations, by continuation token
    alertRule,    \* the resource's alert processing rule at the alerts collaborator
    window,       \* the maintenance run: "out", "in" (pre event handled), "done"
    powerLog,     \* what the latest power-action or deferred-check invocation did
    produced,     \* PowerAction messages sent by ticks so far
    redeliveries, \* count: messages the queue host chose to deliver a second
                  \* time so far; pending: the one awaiting its second delivery,
                  \* with what its first delivery enqueued
    matching,     \* the alert matcher: the alerts queried, the resource, and
                  \* what find_matching_alert_ids and evaluate_condition returned
    provider,     \* exists: whether the provider still has the resource;
                  \* busy: whether it answers a start or stop request with
                  \* 'another operation in progress'
    held          \* the resource object a handler holds between manager.get
                  \* and add_tags, <<>> outside a tag write

\* the part of the state the power-action workflow owns
powerVars ==
    <<checkQueue, ops, alertRule, window, powerLog, produced, redeliveries,
      provider, held>>

vars ==
    <<now, env, timerLast, ticks, manual, subQueue, res, eventQueue, scans,
      scanLog, prevScanNow, firedBefore, grid, powerVars, matching>>

\* no power-action or deferred-check invocation yet
NoPowerLog ==
    [handler |-> "", action |-> "", pre |-> <<>>, call |-> "", suppressed |-> FALSE,
     reenabled |-> FALSE, tagWrites |-> <<>>, enqueued |-> <<>>, result |-> "",
     token |-> 0, wait_retries |-> 0, msg |-> <<>>, delivery |-> 0, before |-> <<>>,
     found |-> TRUE, raised |-> "", contended |-> FALSE, attempts |-> 0,
     steps |-> <<>>, tagFailed |-> FALSE, logged_retries |-> 0]

\* the alert matcher before any alert has been queried
NoMatching ==
    [phase |-> "idle", resource_id |-> <<>>, resource_type |-> <<>>,
     alerts |-> <<>>, result |-> [raised |-> "", value |-> <<>>], eval |-> <<>>]

\* the power-action workflow at rest: empty queues, no provider operation,
\* no alert processing rule, outside a maintenance run
WorkflowIdle ==
    /\ checkQueue = <<>>
    /\ ops = <<>>
    /\ alertRule = "absent"
    /\ window = "out"
    /\ powerLog = NoPowerLog
    /\ produced = 0
    /\ redeliveries = [count |-> 0, pending |-> <<>>]
    /\ provider = [exists |-> TRUE, busy |-> FALSE]
    /\ held = <<>>

PowerIdle == WorkflowIdle /\ matching = NoMatching

\* no grid under conversion
NoGrid == [slots |-> <<>>, converted |-> FALSE, result |-> Returned(None)]

NoScan ==
    [now |-> NoTime, last_check |-> NoTime, seen |-> <<>>,
     outcome |-> Outcome(<<>>, <<>>, <<>>, "", FALSE)]

\* the latest minute boundary at or before t at which TRIGGER_CRON
\* (*/TRIGGER_INTERVAL_MINS * * * *) has an occurrence
RECURSIVE SlotAtOrBefore(_, _)
SlotAtOrBefore(t, interval) ==
    IF t % SubMinute = 0 /\ (MinuteOfDay(t) % 60) % interval = 0
    THEN t
    ELSE SlotAtOrBefore(FloorToMinute(t - 1), interval)

\* whether the timer owes an invocation: a slot began and it has not fired since
TimerDue ==
    /\ ticks < MaxTicks
    /\ timerLast < SlotAtOrBefore(now, env.TRIGGER_INTERVAL)

\* the power state a resource of a type is first observed in
InitialPowerState(rtype) ==
    CASE rtype = "pgsql" -> "ready"
      [] rtype = "sftp"  -> "enabled"
      [] OTHER           -> "running"

Init ==
    /\ now \in StartTimes
    /\ env \in Envs
    /\ timerLast = SlotAtOrBefore(now, env.TRIGGER_INTERVAL)
    /\ ticks = 0
    /\ manual = 0
    /\ subQueue = <<>>
    /\ \E rtype \in ResourceTypes, tags \in TagSets :
          res = [name |-> "res1", rtype |-> rtype,
                 power_state |-> InitialPowerState(rtype), tags |-> tags,
                 alert_ids |-> <<>>]
    /\ eventQueue = <<>>
    /\ scans = 0
    /\ scanLog = NoScan
    /\ prevScanNow = NoTime
    /\ firedBefore = {}
    /\ grid = NoGrid
    /\ PowerIdle

(***************************************************************************)
(* Actions                                                                 *)
(***************************************************************************)
\* nothing is pending: time passes until the timer's next slot, which the
\* host serves with some lag
Advance ==
    /\ ~TimerDue /\ subQueue = <<>>
    /\ ticks < MaxTicks
    /\ \E lag \in 0..MaxTimerLag :
          now' = SlotAtOrBefore(now, env.TRIGGER_INTERVAL)
                    + env.TRIGGER_INTERVAL * SubMinute + lag
    /\ UNCHANGED <<env, timerLast, ticks, manual, subQueue, res, eventQueue,
                   scans, scanLog, prevScanNow, firedBefore, grid, powerVars, matching>>

\* SubscriptionCheck(**sub.model_dump(), last_check=last_check), as sent
SubscriptionCheck(last_check) ==
    [id |-> "sub0", display_name |-> "sub0", state |-> "Enabled",
     last_check |-> last_check]

\* the fields a message of the schema must carry: those the pydantic model
\* declares without a default
RequiredFields(schema) ==
    CASE schema = "SubscriptionCheck" -> {"id", "display_name", "state"}
      [] schema = "ResourcePowerAction" -> {"id", "action", "attempt_num"}
      [] schema = "DeferredWaitPowerActionCheck" ->
            {"id", "action", "attempt_num", "tag_text", "continuation_token",
             "wait_retries"}

\* schema.model_validate_json(body): ValidationError when a required field
\* is missing
model_validate_json(schema, body) ==
    IF RequiredFields(schema) \subseteq DOMAIN body THEN "" ELSE "ValidationError"

\* the handler logs the validation error and re-raises it: nothing else is
\* done for the message
MalformedMessageSwallowed(handler, body) ==
    powerLog' = [NoPowerLog EXCEPT !.handler = handler, !.msg = <<body>>]
MalformedMessage(handler, body) ==
    powerLog' = [NoPowerLog EXCEPT
                    !.handler = handler,
                    !.msg = <<body>>,
                    !.raised = "ValidationError"]

\* timer_trigger: one check per subscription, carrying schedule_status["Last"]
timer_trigger ==
    /\ TimerDue
    /\ subQueue' = Append(subQueue, SubscriptionCheck(timerLast))
    /\ timerLast' = now
    /\ ticks' = ticks + 1
    /\ UNCHANGED <<now, env, manual, res, eventQueue, scans, scanLog,
                   prevScanNow, firedBefore, grid, powerVars, matching>>

\* trigger_function: the HTTP trigger sends a check without last_check
\* (requests are explored that arrive before the timer's first slot)
trigger_function ==
    /\ manual < MaxManual
    /\ ticks = 0 /\ ~TimerDue /\ subQueue = <<>>
    /\ subQueue' = Append(subQueue, SubscriptionCheck(NoTime))
    /\ manual' = manual + 1
    /\ UNCHANGED <<now, env, timerLast, ticks, res, eventQueue, scans, scanLog,
                   prevScanNow, firedBefore, grid, powerVars, matching>>

\* res.create_power_action(action, ...) as enqueue_power_action sends it
\* (created_at, which is only logged, is left out)
PowerAction(r, action) ==
    [id |-> r.name, action |-> action, alert_ids |-> r.alert_ids,
     attempt_num |-> 1]

\* create_powermgmt_tags(text) merged into the tags
WithStatus(tags, status) ==
    [tags EXCEPT !["_POWERMGMT_STATUS_"] = status,
                 !["_POWERMGMT_LASTUPDATED_"] = now]

\* the <<event, occurrence>> pairs the checks of a scan fired, for scans that
\* were given a last check
Fired(log) ==
    {<<log.outcome.cronchecks[i].event, log.outcome.cronchecks[i].prev>> :
        i \in {j \in 1..Len(log.outcome.cronchecks) :
                  /\ log.outcome.cronchecks[j].actioning
                  /\ log.outcome.cronchecks[j].last_check # NoTime}}

\* process_sub_from_queue: scans the subscription's tagged resources; the
\* provider may refuse the audit tag write (add_tags then returns None)
process_sub_from_queue ==
    LET Scan(msg, out) ==
            /\ \E tagOk \in BOOLEAN :
                  res' = IF out.tagWrite # <<>> /\ tagOk
                         THEN [res EXCEPT !.tags = WithStatus(@, out.tagWrite[1])]
                         ELSE res
            /\ eventQueue' = eventQueue \o
                  [i \in 1..Len(out.enqueued) |-> PowerAction(res, out.enqueued[i])]
            /\ scanLog' = [now |-> now, last_check |-> msg.last_check,
                           seen |-> <<res>>, outcome |-> out]
            /\ produced' = produced + Len(out.enqueued)
    IN  /\ subQueue # <<>>
        /\ subQueue' = Tail(subQueue)
        /\ IF model_validate_json("SubscriptionCheck", Head(subQueue)) # ""
           THEN /\ MalformedMessage("process_sub_from_queue", Head(subQueue))
                /\ UNCHANGED <<res, eventQueue, scans, scanLog, prevScanNow,
                               firedBefore, produced>>
           ELSE /\ Scan(Head(subQueue),
                        IF IsTagged(res)
                        THEN ProcessResource(res, Head(subQueue).last_check,
                                             env.RESET_LAST_INVOCATION, now)
                        ELSE NoScan.outcome)
                /\ scans' = scans + 1
                /\ prevScanNow' = scanLog.now
                /\ firedBefore' = firedBefore \cup Fired(scanLog)
                /\ UNCHANGED powerLog
        /\ UNCHANGED <<now, env, timerLast, ticks, manual, grid, matching, provider, held,
                       checkQueue, ops, alertRule, window, redeliveries>>

\* the resource's power state changes at the provider (an operation
\* completes, or someone starts or stops it)
ProviderStateChange ==
    /\ subQueue # <<>>
    /\ \E ps \in PowerStates(res.rtype) \ {res.power_state} :
          res' = [res EXCEPT !.power_state = ps]
    /\ UNCHANGED <<now, env, timerLast, ticks, manual, subQueue, eventQueue,
                   scans, scanLog, prevScanNow, firedBefore, grid, powerVars, matching>>

Next ==
    \/ Advance
    \/ timer_trigger
    \/ trigger_function
    \/ process_sub_from_queue
    \/ ProviderStateChange

Spec == Init /\ [][Next]_vars

(***************************************************************************)
(* The grid conversion on its own: a weekday grid built from slots, on     *)
(* each day of a week                                                      *)
(***************************************************************************)
\* a slot that names a time, and a slot that names none
TimeSlot(text, hh, mm) == [text |-> text, none |-> FALSE, hh |-> hh, mm |-> mm]
NoSlot(text) == [text |-> text, none |-> TRUE, hh |-> 0, mm |-> 0]

\* the slots tried on the day under conversion, and on the other days
GridSlots ==
    { NoSlot(<<"-">>), NoSlot(<<"*">>),
      TimeSlot(<<"8">>, 8, 0),
      TimeSlot(<<"0", "8", ":", "0", "0">>, 8, 0),
      TimeSlot(<<"2", "3", ":", "5", "5">>, 23, 55),
      TimeSlot(<<"0", ":", "3", "0">>, 0, 30) }

GridFillers == { NoSlot(<<"-">>), TimeSlot(<<"1", "8", ":", "3", "0">>, 18, 30) }

\* seven slots, Monday first
GridInputs ==
    {[i \in 1..7 |-> IF i = p THEN a ELSE f] :
        p \in 1..7, a \in GridSlots, f \in GridFillers}

\* the tag value: the slots' texts joined by ','
RECURSIVE JoinSlots(_)
JoinSlots(slots) ==
    IF Len(slots) = 1 THEN slots[1].text
    ELSE slots[1].text \o <<",">> \o JoinSlots(Tail(slots))

InitGrid ==
    /\ now \in {At(WorkingDay + d, 12, 0, 0) : d \in 0..6}
    /\ env = [TRIGGER_INTERVAL |-> 5, RESET_LAST_INVOCATION |-> FALSE]
    /\ timerLast = SlotAtOrBefore(now, env.TRIGGER_INTERVAL)
    /\ ticks = 0
    /\ manual = 0
    /\ subQueue = <<>>
    /\ res = [name |-> "res1", rtype |-> "vm",
              power_state |-> InitialPowerState("vm"),
              tags |-> Tags(None, None, None, None),
              alert_ids |-> <<>>]
    /\ eventQueue = <<>>
    /\ scans = 0
    /\ scanLog = NoScan
    /\ prevScanNow = NoTime
    /\ firedBefore = {}
    /\ grid \in {[slots |-> g, converted |-> FALSE, result |-> Returned(None)] :
                    g \in GridInputs}
    /\ PowerIdle

\* convert_time_schedule_to_cron applied to the grid, today
ConvertGrid ==
    /\ ~grid.converted
    /\ grid.slots # <<>>
    /\ grid' = [grid EXCEPT
                   !.converted = TRUE,
                   !.result = convert_time_schedule_to_cron(JoinSlots(grid.slots), now)]
    /\ UNCHANGED <<now, env, timerLast, ticks, manual, subQueue, res, eventQueue,
                   scans, scanLog, prevScanNow, firedBefore, powerVars, matching>>

NextGrid == ConvertGrid

SpecGrid == InitGrid /\ [][NextGrid]_vars

(***************************************************************************)
(* function_app.py: the power-action workflow                              *)
(***************************************************************************)
RESOURCE_TAGVAL_START == "Auto-started"
RESOURCE_TAGVAL_STOP == "Auto-stopped"
RESOURCE_TAGVAL_STARTED_FOR_MAINTENANCE == "In maintenance window (was stopped)"
RESOURCE_TAGVAL_IN_MAINTENANCE_STOP_PENDING == "In maintenance window (stop pending)"
RESOURCE_TAGVAL_IN_MAINTENANCE == "In maintenance window"
RESOURCE_TAGVAL_INFO_POST_MAINTENANCE == "Maintenance window completed"
RESOURCE_TAGVAL_STOP_POST_MAINTENANCE == "Auto-stopped (post maintenance)"

RESOURCE_TAGVALS_IN_MAINTENANCE_WINDOW ==
    { RESOURCE_TAGVAL_STARTED_FOR_MAINTENANCE,
      RESOURCE_TAGVAL_IN_MAINTENANCE_STOP_PENDING,
      RESOURCE_TAGVAL_IN_MAINTENANCE }

RESOURCE_ACTION_START == "start"
RESOURCE_ACTION_START_PRE_UPDATES == "start_for_updates"
RESOURCE_ACTION_STOP == "stop"
RESOURCE_ACTION_STOP_POST_UPDATES == "stop_post_updates"

DEFERRED_CHECK_MAX_RETRIES == 10

\* resource.tags.get(RESOURCE_TAGKEY_POWERMGMT, "")
PowerMgmtStatus(resource) ==
    IF resource.tags["_POWERMGMT_STATUS_"] = NoStatus
    THEN ""
    ELSE resource.tags["_POWERMGMT_STATUS_"].text

\* what one invocation of the power-action handler decides: whether it
\* suppresses alerts, the status texts it writes itself, the provider call it
\* makes ("" for none) and the text the deferred check is to write
Transition(suppress, tagWrites, call, tag_text) ==
    [suppress |-> suppress, tagWrites |-> tagWrites, call |-> call,
     tag_text |-> tag_text]

\* a faulty variant of InMaintenanceWindow: a VM that was already running
\* when the window opened is not recognised
InMaintenanceWindowUnlessRunning(resource) ==
    PowerMgmtStatus(resource) \in
        RESOURCE_TAGVALS_IN_MAINTENANCE_WINDOW \ {RESOURCE_TAGVAL_IN_MAINTENANCE}

\* the status tag is one of RESOURCE_TAGVALS_IN_MAINTENANCE_WINDOW
InMaintenanceWindow(resource) ==
    PowerMgmtStatus(resource) \in RESOURCE_TAGVALS_IN_MAINTENANCE_WINDOW

\* a faulty variant of StopAuthorised: the status tag is not consulted
StopAuthorisedAnyStatus(resource) == in_stoppable_state(resource)

\* the stop_post_updates guard: a stop was deferred, or the resource was
\* started for the window
StopAuthorised(resource) ==
    /\ in_stoppable_state(resource)
    /\ PowerMgmtStatus(resource) \in
          { RESOURCE_TAGVAL_IN_MAINTENANCE_STOP_PENDING,
            RESOURCE_TAGVAL_STARTED_FOR_MAINTENANCE }

\* a faulty variant of StartForUpdates: the status is written at once, before
\* the start has completed
StartForUpdatesTaggedAtOnce(resource) ==
    IF in_startable_state(resource)
    THEN Transition(FALSE, <<RESOURCE_TAGVAL_STARTED_FOR_MAINTENANCE>>, "start", "")
    ELSE Transition(FALSE, <<RESOURCE_TAGVAL_IN_MAINTENANCE>>, "", "")

\* the start_for_updates branch
StartForUpdates(resource) ==
    IF in_startable_state(resource)
    THEN Transition(FALSE, <<>>, "start", RESOURCE_TAGVAL_STARTED_FOR_MAINTENANCE)
    ELSE Transition(FALSE, <<RESOURCE_TAGVAL_IN_MAINTENANCE>>, "", "")

\* a faulty variant of ScheduledStop: every type is tagged by the check
ScheduledStopTaggedByCheck(resource, suppress) ==
    IF ~in_stoppable_state(resource)
    THEN Transition(suppress, <<>>, "", "")
    ELSE IF InMaintenanceWindow(resource)
    THEN Transition(suppress, <<RESOURCE_TAGVAL_IN_MAINTENANCE_STOP_PENDING>>,
                    "", "")
    ELSE Transition(suppress, <<>>, "stop", RESOURCE_TAGVAL_STOP)

\* a faulty variant of ScheduledStop: the stop is issued whatever state the
\* resource was fetched in
ScheduledStopUnguarded(resource, suppress) ==
    IF InMaintenanceWindow(resource)
    THEN Transition(suppress, <<RESOURCE_TAGVAL_IN_MAINTENANCE_STOP_PENDING>>,
                    "", "")
    ELSE Transition(suppress, <<>>, "stop", RESOURCE_TAGVAL_STOP)

\* the stop branch: the flexible server is tagged before the stop call, the
\* application gateway is never tagged, the others are tagged by the check
ScheduledStop(resource, suppress) ==
    IF ~in_stoppable_state(resource)
    THEN Transition(suppress, <<>>, "", "")
    ELSE IF InMaintenanceWindow(resource)
    THEN Transition(suppress, <<RESOURCE_TAGVAL_IN_MAINTENANCE_STOP_PENDING>>,
                    "", "")
    ELSE CASE resource.rtype = "pgsql" ->
                Transition(suppress, <<RESOURCE_TAGVAL_STOP>>, "stop", "")
           [] resource.rtype = "agw" ->
                Transition(suppress, <<>>, "stop", "")
           [] OTHER ->
                Transition(suppress, <<>>, "stop", RESOURCE_TAGVAL_STOP)

\* the stop_post_updates branch
StopPostUpdates(resource, suppress) ==
    IF StopAuthorised(resource)
    THEN Transition(suppress, <<>>, "stop", RESOURCE_TAGVAL_STOP_POST_MAINTENANCE)
    ELSE Transition(suppress, <<RESOURCE_TAGVAL_INFO_POST_MAINTENANCE>>, "", "")

handle_powermgmt_event_with_deferred_wait(event, resource) ==
    CASE event.action = RESOURCE_ACTION_START ->
            IF in_startable_state(resource)
            THEN Transition(FALSE, <<>>, "start", RESOURCE_TAGVAL_START)
            ELSE Transition(FALSE, <<>>, "", "")
      [] event.action = RESOURCE_ACTION_START_PRE_UPDATES ->
            StartForUpdates(resource)
      [] event.action = RESOURCE_ACTION_STOP ->
            ScheduledStop(resource, event.alert_ids # <<>>)
      [] OTHER ->
            StopPostUpdates(resource, event.alert_ids # <<>>)

\* DeferredWaitPowerActionCheck(**check_args)
DeferredWaitPowerActionCheck(event, tag_text, continuation_token, wait_retries) ==
    [id |-> event.id, action |-> event.action, alert_ids |-> event.alert_ids,
     attempt_num |-> event.attempt_num, tag_text |-> tag_text,
     continuation_token |-> continuation_token, wait_retries |-> wait_retries]

\* a start or stop operation the provider has accepted, and whether a poll
\* has logged a terminal result for it
Operation(kind, action) ==
    [kind |-> kind, action |-> action, status |-> "inprogress", closed |-> FALSE]

\* whether the action starts the resource (otherwise it stops it)
IsStartAction(action) ==
    action \in {RESOURCE_ACTION_START, RESOURCE_ACTION_START_PRE_UPDATES}

\* manager.start / manager.stop with a continuation token and timeout=1: the
\* poller's status; a VM start still in progress on a VM that is running or
\* starting counts as succeeded; an HTTP error is "failed" ("failure" from the
\* flexible server's stop, which catches it itself)
Poll(event, resource, status, httpError) ==
    IF httpError
    THEN IF resource.rtype = "pgsql" /\ ~IsStartAction(event.action)
         THEN "failure" ELSE "failed"
    ELSE IF /\ resource.rtype = "vm"
            /\ IsStartAction(event.action)
            /\ status = "inprogress"
            /\ IsRunning(resource)
    THEN "succeeded"
    ELSE status

\* a faulty variant of RetriesLeft: one more poll is allowed
RetriesLeftInclusive(wait_retries) == wait_retries <= DEFERRED_CHECK_MAX_RETRIES

\* event.wait_retries < DEFERRED_CHECK_MAX_RETRIES
RetriesLeft(wait_retries) == wait_retries < DEFERRED_CHECK_MAX_RETRIES

\* a faulty variant of Resends: anything but success is polled again
ResendsUnlessSucceeded(result, wait_retries) == result # "succeeded" /\ RetriesLeft(wait_retries)

\* a faulty variant of Resends: a failed poll is polled again as well
ResendsOnFailure(result, wait_retries) == result \in {"inprogress", "failed", "failure"} /\ RetriesLeft(wait_retries)

\* the check is sent again: the result is "inprogress" and retries are left
Resends(result, wait_retries) == result = "inprogress" /\ RetriesLeft(wait_retries)

\* a faulty variant of check_powermgmt_status: the result of the tag write
\* is not looked at
check_powermgmt_status_tag_unchecked(event, polled, tagOk) ==
    LET Verdict(tagWrites, result, wait_retries) ==
            [tagWrites |-> tagWrites,
             tagFailed |-> tagWrites # <<>> /\ ~tagOk,
             result |-> IF result = "inprogress" /\ ~RetriesLeft(wait_retries)
                        THEN "timeout" ELSE result,
             wait_retries |-> wait_retries,
             resend |-> Resends(result, wait_retries),
             reenable |-> /\ result = "succeeded"
                          /\ event.action = RESOURCE_ACTION_START
                          /\ event.alert_ids # <<>>]
        Counted(tagWrites, result) ==
            Verdict(tagWrites, result,
                    IF result = "inprogress"
                    THEN event.wait_retries + 1 ELSE event.wait_retries)
    IN  IF polled = "succeeded" /\ event.tag_text # ""
        THEN Counted(<<event.tag_text>>, "succeeded")
        ELSE Counted(<<>>, polled)

\* a faulty variant of check_powermgmt_status: the alerts are re-enabled
\* after every successful start, the start for a maintenance window included
check_powermgmt_status_any_start(event, polled, tagOk) ==
    LET Verdict(tagWrites, result, wait_retries) ==
            [tagWrites |-> tagWrites,
             tagFailed |-> tagWrites # <<>> /\ ~tagOk,
             result |-> IF result = "inprogress" /\ ~RetriesLeft(wait_retries)
                        THEN "timeout" ELSE result,
             wait_retries |-> wait_retries,
             resend |-> Resends(result, wait_retries),
             reenable |-> /\ result = "succeeded"
                          /\ IsStartAction(event.action)
                          /\ event.alert_ids # <<>>]
        Counted(tagWrites, result) ==
            Verdict(tagWrites, result,
                    IF result = "inprogress"
                    THEN event.wait_retries + 1 ELSE event.wait_retries)
    IN  IF polled = "succeeded" /\ event.tag_text # ""
        THEN Counted(<<event.tag_text>>, IF tagOk THEN "succeeded" ELSE "inprogress")
        ELSE Counted(<<>>, polled)

\* check_powermgmt_status after the poll: the status text written, the final
\* result, the retry counter and whether the check is sent again
check_powermgmt_status(event, polled, tagOk) ==
    LET Verdict(tagWrites, result, wait_retries) ==
            [tagWrites |-> tagWrites,
             tagFailed |-> tagWrites # <<>> /\ ~tagOk,
             result |-> IF result = "inprogress" /\ ~RetriesLeft(wait_retries)
                        THEN "timeout" ELSE result,
             wait_retries |-> wait_retries,
             resend |-> Resends(result, wait_retries),
             reenable |-> /\ result = "succeeded"
                          /\ event.action = RESOURCE_ACTION_START
                          /\ event.alert_ids # <<>>]
        Counted(tagWrites, result) ==
            Verdict(tagWrites, result,
                    IF result = "inprogress"
                    THEN event.wait_retries + 1 ELSE event.wait_retries)
    IN  IF polled = "succeeded" /\ event.tag_text # ""
        THEN Counted(<<event.tag_text>>, IF tagOk THEN "succeeded" ELSE "inprogress")
        ELSE Counted(<<>>, polled)

\* the resource types the workflow is explored for
PowerResourceTypes == {"vm", "pgsql"}

\* the state a start or stop leaves the resource in, and the state it passes
\* through on the way
FinalState(rtype, kind) ==
    CASE rtype = "pgsql" -> IF kind = "start" THEN "ready" ELSE "stopped"
      [] rtype = "sftp"  -> IF kind = "start" THEN "enabled" ELSE "disabled"
      [] rtype = "agw"   -> IF kind = "start" THEN "running" ELSE "stopped"
      [] OTHER           -> IF kind = "start" THEN "running" ELSE "deallocated"

TransitionalState(rtype, kind) ==
    CASE rtype = "pgsql" -> IF kind = "start" THEN "starting" ELSE "stopping"
      [] rtype = "sftp"  -> IF kind = "start" THEN "enabled" ELSE "disabled"
      [] rtype = "agw"   -> IF kind = "start" THEN "starting" ELSE "stopping"
      [] OTHER           -> IF kind = "start" THEN "starting" ELSE "deallocating"

\* the ids of the alerts that find_matching_alert_ids matches to the resource
AlertIdSets == {<<>>, <<"alert1">>}

\* the scan variables at rest, at noon of a working day
ScanIdle ==
    /\ now = At(WorkingDay, 12, 0, 0)
    /\ env = [TRIGGER_INTERVAL |-> 5, RESET_LAST_INVOCATION |-> FALSE]
    /\ timerLast = SlotAtOrBefore(now, env.TRIGGER_INTERVAL)
    /\ ticks = 0
    /\ manual = 0
    /\ subQueue = <<>>
    /\ scans = 0
    /\ scanLog = NoScan
    /\ prevScanNow = NoTime
    /\ firedBefore = {}
    /\ grid = NoGrid

scanVars ==
    <<now, env, timerLast, ticks, manual, subQueue, scans, scanLog, prevScanNow,
      firedBefore, grid>>

InitTypes(types) ==
    /\ ScanIdle
    /\ \E rtype \in types, kind \in {"start", "stop"},
          alert_ids \in AlertIdSets :
          res = [name |-> "res1", rtype |-> rtype,
                 power_state |-> FinalState(rtype, kind),
                 tags |-> Tags(None, T_ON_8, T_OFF_18, None),
                 alert_ids |-> alert_ids]
    /\ eventQueue = <<>>
    /\ PowerIdle

InitPower == InitTypes(PowerResourceTypes)

\* enqueue_power_action as a tick calls it: a scheduled start or stop is sent
\* for the resource (ticks are explored that find the queues drained)
enqueue_power_action ==
    /\ eventQueue = <<>> /\ checkQueue = <<>>
    /\ produced < MaxActions
    /\ \E action \in {RESOURCE_ACTION_START, RESOURCE_ACTION_STOP} :
          eventQueue' = Append(eventQueue, PowerAction(res, action))
    /\ produced' = produced + 1
    /\ UNCHANGED <<scanVars, matching, provider, held, res, checkQueue, ops, alertRule, window, powerLog,
                   redeliveries>>

\* a faulty variant of Steps: the alerts are suppressed after the call
StepsCallFirst(t) ==
    (IF t.call # "" THEN <<t.call>> ELSE <<>>)
       \o [i \in 1..Len(t.tagWrites) |-> "add_tags"]
       \o (IF t.suppress THEN <<"suppress_alerts">> ELSE <<>>)

\* the calls of a transition in the order the handler's branches make them:
\* suppress_alerts(True) opens the stop branches, the tag writes of the
\* handler come next, start_with_retry / stop_with_retry is the last call
Steps(t) ==
    (IF t.suppress THEN <<"suppress_alerts">> ELSE <<>>)
       \o [i \in 1..Len(t.tagWrites) |-> "add_tags"]
       \o (IF t.call # "" THEN <<t.call>> ELSE <<>>)

\* what manager.start / manager.stop raise when the provider answers
\* 'another operation in progress' (a ResourceExistsError with that code):
\* begin_start / begin_stop send the initial request outside the managers'
\* try blocks; a poll fails in poller.result, which only the gateway manager
\* wraps to raise PowerMgmtRetryableError. The flexible-server manager's
\* stop catches every HttpResponseError and returns the text "failure"
ManagerRaises(rtype, call, initial) ==
    IF rtype = "pgsql" /\ call = "stop"
    THEN ""
    ELSE IF ~initial /\ rtype = "agw"
    THEN "PowerMgmtRetryableError"
    ELSE "ResourceExistsError"

\* start_with_retry / stop_with_retry around a call that raised exc:
\* retryable_args hands retry_if_exception_type a list, and isinstance(e, [..])
\* raises TypeError, so the call is made once and TypeError leaves the wrapper
WithRetry(exc) ==
    [raised |-> IF exc = "" THEN "" ELSE "TypeError", attempts |-> 1]

\* the wrapped initial call of the handler, when it makes one
InitialCall(rtype, call) ==
    IF call = ""
    THEN [raised |-> "", attempts |-> 0]
    ELSE WithRetry(IF provider.busy THEN ManagerRaises(rtype, call, TRUE) ELSE "")

\* handle_powermgmt_event_with_deferred_wait on a delivered message: fetches
\* the resource and makes the transition t; the provider may refuse a tag
\* write (add_tags then returns None), and an exception of the provider call
\* is logged and re-raised before anything is enqueued. A second delivery of
\* the message is logged with what the first one enqueued.
HandlePowerAction(event, t, delivery, before) ==
    LET initial == InitialCall(res.rtype, t.call)
        \* the call returned a continuation token: the provider's, or the
        \* text "failure" (token 0, which names no operation)
        returned == t.call # "" /\ initial.raised = ""
        accepted == returned /\ ~provider.busy
        token == IF accepted THEN Len(ops) + 1 ELSE 0
    IN      /\ \E tagOk \in BOOLEAN :
                  res' = IF t.tagWrites # <<>> /\ tagOk
                         THEN [res EXCEPT
                                  !.tags = WithStatus(@, StatusText(t.tagWrites[1]))]
                         ELSE res
            /\ alertRule' = IF t.suppress THEN "enabled" ELSE alertRule
            /\ ops' = IF accepted
                      THEN Append(ops, Operation(t.call, event.action))
                      ELSE ops
            /\ checkQueue' =
                  IF returned
                  THEN Append(checkQueue,
                          DeferredWaitPowerActionCheck(event, t.tag_text, token, 0))
                  ELSE checkQueue
            /\ powerLog' = [NoPowerLog EXCEPT
                               !.handler = "process_powermgmt_event",
                               !.action = event.action,
                               !.pre = <<res>>,
                               !.call = t.call,
                               !.suppressed = t.suppress,
                               !.tagWrites = t.tagWrites,
                               !.enqueued =
                                  IF returned
                                  THEN <<DeferredWaitPowerActionCheck(
                                            event, t.tag_text, token, 0)>>
                                  ELSE <<>>,
                               !.token = token,
                               !.msg = <<event>>,
                               !.delivery = delivery,
                               !.before = before,
                               !.raised = initial.raised,
                               !.contended = t.call # "" /\ provider.busy,
                               !.attempts = initial.attempts,
                               !.steps = Steps(t)]

\* manager.get raises ResourceNotFoundError, which neither
\* handle_powermgmt_event_with_deferred_wait nor check_powermgmt_status
\* catches: the invocation fails before anything is done (the host takes the
\* message off the queue once its retries are used up)
PowerActionNotFound(handler, event, delivery, before) ==
    /\ UNCHANGED <<res, alertRule, ops>>
    /\ powerLog' = [NoPowerLog EXCEPT
                       !.handler = handler,
                       !.action = event.action,
                       !.msg = <<event>>,
                       !.delivery = delivery,
                       !.before = before,
                       !.found = FALSE,
                       !.raised = "ResourceNotFoundError"]

\* process_powermgmt_event: the first delivery of the message at the head of
\* the power-action queue
process_powermgmt_event ==
    /\ eventQueue # <<>>
    /\ IF model_validate_json("ResourcePowerAction", Head(eventQueue)) # ""
       THEN /\ MalformedMessage("process_powermgmt_event", Head(eventQueue))
            /\ UNCHANGED <<res, alertRule, ops, checkQueue>>
       ELSE IF provider.exists
       THEN HandlePowerAction(
                Head(eventQueue),
                handle_powermgmt_event_with_deferred_wait(Head(eventQueue), res),
                1, <<>>)
       ELSE /\ PowerActionNotFound("process_powermgmt_event", Head(eventQueue),
                                   1, <<>>)
            /\ UNCHANGED checkQueue
    /\ eventQueue' = Tail(eventQueue)
    /\ UNCHANGED <<scanVars, matching, provider, held, window, produced, redeliveries>>

\* check_powermgmt_status on a delivered check: v is its verdict, rest the
\* checks that stay queued
CheckPowerAction(event, v, rest, delivery, before) ==
            /\ res' = IF v.tagWrites # <<>> /\ ~v.tagFailed
                      THEN [res EXCEPT
                               !.tags = WithStatus(@, StatusText(v.tagWrites[1]))]
                      ELSE res
            /\ alertRule' = IF v.reenable THEN "disabled" ELSE alertRule
            /\ checkQueue' =
                  IF v.resend
                  THEN Append(rest, [event EXCEPT !.wait_retries = v.wait_retries])
                  ELSE rest
            /\ ops' = [ops EXCEPT ![event.continuation_token].closed =
                                     @ \/ ~v.resend]
            /\ powerLog' = [NoPowerLog EXCEPT
                               !.handler = "process_powermgmt_event_check",
                               !.action = event.action,
                               !.pre = <<res>>,
                               !.reenabled = v.reenable,
                               !.tagWrites = v.tagWrites,
                               !.enqueued =
                                  IF v.resend
                                  THEN <<[event EXCEPT
                                             !.wait_retries = v.wait_retries]>>
                                  ELSE <<>>,
                               !.result = v.result,
                               !.token = event.continuation_token,
                               !.wait_retries = event.wait_retries,
                               !.msg = <<event>>,
                               !.delivery = delivery,
                               !.before = before,
                               !.contended = provider.busy,
                               !.attempts = 1,
                               !.tagFailed = v.tagFailed,
                               !.logged_retries = v.wait_retries]

\* what the poll raises past check_powermgmt_status, whose try catches
\* HttpResponseError only (manager.start / manager.stop are called there
\* without the retry wrapper); the text "failure" is no continuation token,
\* and decoding it fails before any request is sent
PollRaises(event, rtype) ==
    IF event.continuation_token = 0
    THEN "ValueError"
    ELSE IF /\ provider.busy
            /\ ManagerRaises(rtype,
                             IF IsStartAction(event.action) THEN "start" ELSE "stop",
                             FALSE) = "PowerMgmtRetryableError"
    THEN "PowerMgmtRetryableError"
    ELSE ""

\* check_powermgmt_status when the poll raises past it: nothing is written,
\* re-enabled or enqueued
CheckPowerActionRaises(event, exc, rest, delivery, before) ==
            /\ UNCHANGED <<res, alertRule, ops>>
            /\ checkQueue' = rest
            /\ powerLog' = [NoPowerLog EXCEPT
                               !.handler = "process_powermgmt_event_check",
                               !.action = event.action,
                               !.pre = <<res>>,
                               !.token = event.continuation_token,
                               !.wait_retries = event.wait_retries,
                               !.msg = <<event>>,
                               !.delivery = delivery,
                               !.before = before,
                               !.raised = exc,
                               !.contended = provider.busy,
                               !.attempts = 1]

\* the verdicts check_powermgmt_status can reach on the check, over the
\* outcomes of the poll (an HttpResponseError when the provider is busy) and
\* of the tag write
Verdicts(event) ==
    { check_powermgmt_status(
          event,
          Poll(event, res, ops[event.continuation_token].status, httpError),
          tagOk) : httpError \in IF provider.busy THEN {TRUE} ELSE BOOLEAN,
                   tagOk \in BOOLEAN }

\* process_powermgmt_event_check: the first delivery of the check at the head
\* of the deferred-check queue; polls the operation the check names
process_powermgmt_event_check ==
    /\ checkQueue # <<>>
    /\ IF model_validate_json("DeferredWaitPowerActionCheck", Head(checkQueue)) # ""
       THEN /\ MalformedMessage("process_powermgmt_event_check", Head(checkQueue))
            /\ checkQueue' = Tail(checkQueue)
            /\ UNCHANGED <<res, alertRule, ops>>
       ELSE IF provider.exists /\ PollRaises(Head(checkQueue), res.rtype) # ""
       THEN CheckPowerActionRaises(Head(checkQueue),
                                   PollRaises(Head(checkQueue), res.rtype),
                                   Tail(checkQueue), 1, <<>>)
       ELSE IF provider.exists
       THEN \E v \in Verdicts(Head(checkQueue)) :
                CheckPowerAction(Head(checkQueue), v, Tail(checkQueue), 1, <<>>)
       ELSE /\ PowerActionNotFound("process_powermgmt_event_check",
                                   Head(checkQueue), 1, <<>>)
            /\ checkQueue' = Tail(checkQueue)
    /\ UNCHANGED <<scanVars, matching, provider, held, eventQueue, window, produced, redeliveries>>

\* process_updatemgmt_event: a maintenance run's PreMaintenance event, then
\* its PostMaintenance event, for the run's virtual machines (events are
\* explored that find at most MaxInFlight checks waiting)
process_updatemgmt_event ==
    LET is_pre_maintenance == window = "out"
        Send(action) == eventQueue' = Append(eventQueue, PowerAction(res, action))
        Skip == UNCHANGED eventQueue
    IN  /\ window \in {"out", "in"}
        /\ eventQueue = <<>> /\ Len(checkQueue) <= MaxInFlight
        /\ window' = IF is_pre_maintenance THEN "in" ELSE "done"
        /\ IF ~provider.exists
                 \/ res.rtype # "vm" \/ Truthy(res.tags["_POWERMGMT_EXEMPT_"])
           THEN Skip
           ELSE IF is_pre_maintenance
           THEN Send(RESOURCE_ACTION_START_PRE_UPDATES)
           ELSE IF PowerMgmtStatus(res) = RESOURCE_TAGVAL_STARTED_FOR_MAINTENANCE
           THEN Send(RESOURCE_ACTION_STOP_POST_UPDATES)
           ELSE Skip
        /\ UNCHANGED <<scanVars, matching, provider, held, res, checkQueue, ops, alertRule, powerLog,
                       produced, redeliveries>>

\* the provider works on an operation: the resource enters the transitional
\* state, the operation completes, or it fails
ProviderProgress ==
    \E token \in 1..Len(ops) :
        /\ provider.exists
        /\ ops[token].status = "inprogress"
        /\ \/ /\ res.power_state \notin
                    { TransitionalState(res.rtype, ops[token].kind),
                      FinalState(res.rtype, ops[token].kind) }
              /\ res' = [res EXCEPT !.power_state =
                            TransitionalState(res.rtype, ops[token].kind)]
              /\ UNCHANGED ops
           \/ /\ res' = [res EXCEPT !.power_state =
                            FinalState(res.rtype, ops[token].kind)]
              /\ ops' = [ops EXCEPT ![token].status = "succeeded"]
           \/ /\ ops' = [ops EXCEPT ![token].status = "failed"]
              /\ UNCHANGED res
        /\ UNCHANGED <<scanVars, matching, provider, held, eventQueue, checkQueue, alertRule, window,
                       powerLog, produced, redeliveries>>

NextPower ==
    \/ enqueue_power_action
    \/ process_powermgmt_event
    \/ process_powermgmt_event_check
    \/ process_updatemgmt_event
    \/ ProviderProgress

SpecPower == InitPower /\ [][NextPower]_vars

\* the resource is deleted at the provider while messages that name it may
\* still be queued: every later manager.get raises ResourceNotFoundError
resource_deleted ==
    /\ provider.exists
    /\ provider' = [provider EXCEPT !.exists = FALSE]
    /\ UNCHANGED <<scanVars, matching, held, res, eventQueue, checkQueue, ops, alertRule,
                   window, powerLog, produced, redeliveries>>

NextFaults ==
    \/ enqueue_power_action
    \/ process_powermgmt_event
    \/ process_powermgmt_event_check
    \/ process_updatemgmt_event
    \/ ProviderProgress
    \/ resource_deleted

SpecFaults == InitPower /\ [][NextFaults]_vars

\* messages that fail their schema: a subscription check without an id, a
\* power action without an action, a deferred check without a token
MalformedSubscriptionCheck ==
    [display_name |-> "sub0", state |-> "Enabled", last_check |-> NoTime]
MalformedPowerAction ==
    [id |-> "res1", alert_ids |-> <<>>, attempt_num |-> 1]
MalformedDeferredCheck ==
    [id |-> "res1", action |-> RESOURCE_ACTION_STOP, alert_ids |-> <<>>,
     attempt_num |-> 1, tag_text |-> None, wait_retries |-> 0]

\* something other than the function app puts a message on a trigger queue
malformed_message ==
    /\ \/ /\ subQueue = <<>>
          /\ subQueue' = <<MalformedSubscriptionCheck>>
          /\ UNCHANGED <<eventQueue, checkQueue>>
       \/ /\ eventQueue = <<>>
          /\ eventQueue' = <<MalformedPowerAction>>
          /\ UNCHANGED <<subQueue, checkQueue>>
       \/ /\ checkQueue = <<>>
          /\ checkQueue' = <<MalformedDeferredCheck>>
          /\ UNCHANGED <<subQueue, eventQueue>>
    /\ UNCHANGED <<now, env, timerLast, ticks, manual, scans, scanLog, prevScanNow,
                   firedBefore, grid, matching, provider, held, res, ops, alertRule,
                   window, powerLog, produced, redeliveries>>

\* scheduled actions with malformed messages on the three trigger queues
NextMalformed ==
    \/ enqueue_power_action
    \/ process_powermgmt_event
    \/ process_powermgmt_event_check
    \/ ProviderProgress
    \/ malformed_message
    \/ process_sub_from_queue

SpecMalformed == InitPower /\ [][NextMalformed]_vars

\* a power-off cron that lists the working days, as a tag carries it
T_OFF_18_LIST ==
    <<"0", " ", "1", "8", " ", "*", " ", "*", " ", "1", ",", "2", ",", "3", ",",
      "4", ",", "5">>

\* a check without last_check is waiting for a VM that carries a power-off
\* cron and no power-on tag, shortly after 18:00 on a Monday
InitEndToEnd ==
    /\ \E day \in {Holiday, WorkingDay}, mm \in 1..3 : now = At(day, 18, mm, 0)
    /\ env \in Envs
    /\ timerLast = SlotAtOrBefore(now, env.TRIGGER_INTERVAL)
    /\ ticks = 0
    /\ manual = 1
    /\ subQueue = <<SubscriptionCheck(NoTime)>>
    /\ \E power_state \in PowerStates("vm"), alert_ids \in AlertIdSets :
          res = [name |-> "res1", rtype |-> "vm", power_state |-> power_state,
                 tags |-> Tags(None, None, T_OFF_18_LIST, None),
                 alert_ids |-> alert_ids]
    /\ eventQueue = <<>>
    /\ scans = 0
    /\ scanLog = NoScan
    /\ prevScanNow = NoTime
    /\ firedBefore = {}
    /\ grid = NoGrid
    /\ PowerIdle

\* the scan, the power action it sends, and the polls of the operation
NextEndToEnd ==
    \/ process_sub_from_queue
    \/ process_powermgmt_event
    \/ process_powermgmt_event_check
    \/ ProviderProgress

SpecEndToEnd == InitEndToEnd /\ [][NextEndToEnd]_vars

\* a check is waiting for a VM whose power-on and power-off crons are drawn
\* from the same values, around 18:00 on a working day
InitDecision ==
    /\ now \in {At(WorkingDay, 17, 58, 0), At(WorkingDay, 18, 2, 0)}
    /\ env \in Envs
    /\ timerLast = SlotAtOrBefore(now, env.TRIGGER_INTERVAL)
    /\ ticks = 0
    /\ manual = 0
    /\ \E last_check \in {NoTime, At(WorkingDay, 17, 55, 0), At(WorkingDay, 18, 1, 1)} :
          subQueue = <<SubscriptionCheck(last_check)>>
    /\ \E power_state \in PowerStates("vm"), on \in {T_18, T_OFF_18, T_1755},
          off \in {T_18, T_OFF_18, T_1755} :
          res = [name |-> "res1", rtype |-> "vm", power_state |-> power_state,
                 tags |-> Tags(None, on, off, None), alert_ids |-> <<>>]
    /\ eventQueue = <<>>
    /\ scans = 0
    /\ scanLog = NoScan
    /\ prevScanNow = NoTime
    /\ firedBefore = {}
    /\ grid = NoGrid
    /\ PowerIdle

\* the host delivers the subscription check a second time
check_redelivered ==
    /\ subQueue = <<>> /\ scans = 1
    /\ subQueue' = <<SubscriptionCheck(scanLog.last_check)>>
    /\ UNCHANGED <<now, env, timerLast, ticks, manual, res, eventQueue, scans,
                   scanLog, prevScanNow, firedBefore, grid, powerVars, matching>>

\* two scans at the same instant, between which the VM may change state
NextDecision ==
    \/ process_sub_from_queue
    \/ ProviderStateChange
    \/ check_redelivered

SpecDecision == InitDecision /\ [][NextDecision]_vars

\* the types with a manager of their own whose stop branch differs
ManagedResourceTypes == {"vm", "pgsql", "agw"}

\* another operation on the resource begins or ends at the provider
another_operation ==
    /\ provider' = [provider EXCEPT !.busy = ~@]
    /\ UNCHANGED <<scanVars, matching, held, res, eventQueue, checkQueue, ops, alertRule,
                   window, powerLog, produced, redeliveries>>

\* scheduled actions on each managed type, with contention at the provider
NextContention ==
    \/ enqueue_power_action
    \/ process_powermgmt_event
    \/ process_powermgmt_event_check
    \/ ProviderProgress
    \/ another_operation

SpecContention == InitTypes(ManagedResourceTypes) /\ [][NextContention]_vars

\* scheduled actions on each managed type
NextTypes ==
    \/ enqueue_power_action
    \/ process_powermgmt_event
    \/ process_powermgmt_event_check
    \/ ProviderProgress

SpecTypes == InitTypes(ManagedResourceTypes) /\ [][NextTypes]_vars

\* every type a tick scans, and the power states a resource of the type is
\* listed in, the states in between included
ScannedResourceTypes == {"vm", "agw", "pgsql", "sftp"}

ListedPowerStates(rtype) ==
    CASE rtype = "pgsql" -> {"ready", "stopped", "stopping", "starting"}
      [] rtype = "sftp"  -> {"enabled", "disabled"}
      [] OTHER           -> {"running", "starting", "deallocating", "deallocated"}

\* a check is waiting for a resource of any type in any power state whose
\* power-on and power-off crons have occurrences in the same window or at
\* the same instant, around 18:00 on a working day
InitStates ==
    /\ now \in {At(WorkingDay, 17, 58, 0), At(WorkingDay, 18, 2, 0)}
    /\ env \in Envs
    /\ timerLast = SlotAtOrBefore(now, env.TRIGGER_INTERVAL)
    /\ ticks = 0
    /\ manual = 0
    /\ \E last_check \in {NoTime, At(WorkingDay, 17, 50, 0)} :
          subQueue = <<SubscriptionCheck(last_check)>>
    /\ \E rtype \in ScannedResourceTypes, on \in {T_18, T_1755},
          off \in {T_18, T_1755} :
          \E power_state \in ListedPowerStates(rtype) :
             res = [name |-> "res1", rtype |-> rtype, power_state |-> power_state,
                    tags |-> Tags(None, on, off, None), alert_ids |-> <<>>]
    /\ eventQueue = <<>>
    /\ scans = 0
    /\ scanLog = NoScan
    /\ prevScanNow = NoTime
    /\ firedBefore = {}
    /\ grid = NoGrid
    /\ PowerIdle

\* the scans of one tick and of its redelivery, between which the resource
\* may change state
NextStates ==
    \/ process_sub_from_queue
    \/ ProviderStateChange
    \/ check_redelivered

SpecStates == InitStates /\ [][NextStates]_vars

\* a tick while an operation is being polled: the power-off cron is due and
\* the listing shows the resource in a stoppable state, so a stop is sent
\* (process_sub_from_queue consults neither the status tag nor the queues)
tick_during_operation ==
    /\ eventQueue = <<>>
    /\ checkQueue # <<>> /\ Len(checkQueue) <= MaxInFlight
    /\ produced < MaxActions
    /\ in_stoppable_state(res)
    /\ eventQueue' = Append(eventQueue, PowerAction(res, RESOURCE_ACTION_STOP))
    /\ produced' = produced + 1
    /\ UNCHANGED <<scanVars, matching, provider, held, res, checkQueue, ops, alertRule,
                   window, powerLog, redeliveries>>

\* a VM's scheduled actions, maintenance events and polls in every order
NextWindow ==
    \/ enqueue_power_action
    \/ tick_during_operation
    \/ process_powermgmt_event
    \/ process_powermgmt_event_check
    \/ process_updatemgmt_event
    \/ ProviderProgress

SpecWindow == InitTypes({"vm"}) /\ [][NextWindow]_vars

\* the value that stands for a key the tag map does not hold
AbsentTag(k) ==
    CASE k = "_POWERMGMT_STATUS_"      -> NoStatus
      [] k = "_POWERMGMT_LASTUPDATED_" -> NoTime
      [] OTHER                         -> None

\* create_powermgmt_tags(text): the two audit keys and no other
create_powermgmt_tags(text) ==
    [k \in TagKeys |->
        CASE k = "_POWERMGMT_STATUS_"      -> StatusText(text)
          [] k = "_POWERMGMT_LASTUPDATED_" -> now
          [] OTHER                         -> AbsentTag(k)]

\* AzureManager.add_tags: the request carries resource.tags | tags, every tag
\* of the resource object as it was fetched with the new tags laid over
\* them; the provider's Merge sets each key the request carries and keeps
\* the keys it does not carry
add_tags(provider_tags, resource_tags, tags) ==
    LET sent == [k \in TagKeys |->
                    IF tags[k] # AbsentTag(k) THEN tags[k] ELSE resource_tags[k]]
    IN  [k \in TagKeys |->
            IF sent[k] # AbsentTag(k) THEN sent[k] ELSE provider_tags[k]]

\* manager.get: a handler fetches the resource it is about to tag
manager_get ==
    /\ held = <<>>
    /\ held' = <<res>>
    /\ UNCHANGED <<scanVars, matching, provider, res, eventQueue, checkQueue, ops,
                   alertRule, window, powerLog, produced, redeliveries>>

\* the values someone else gives a tag of the resource (None removes it)
EditedValues(k) ==
    CASE k = "Schedule"           -> {None, BUSINESSHOURS, ALWAYSON}
      [] k = "PowerOff"           -> {None, T_OFF_18, T_18}
      [] k = "_POWERMGMT_EXEMPT_" -> {None, V_TRUE}
      [] OTHER                    -> {None, T_ON_8}

\* someone else changes, adds or removes a tag at the provider
tags_changed_by_others ==
    /\ \E k \in TagKeys \ {"_POWERMGMT_STATUS_", "_POWERMGMT_LASTUPDATED_"} :
          \E v \in EditedValues(k) \ {res.tags[k]} :
             res' = [res EXCEPT !.tags[k] = v]
    /\ UNCHANGED <<scanVars, matching, provider, held, eventQueue, checkQueue, ops,
                   alertRule, window, powerLog, produced, redeliveries>>

\* the handler writes an audit status with the resource object it holds;
\* the provider may refuse the write (add_tags then returns None)
write_audit_tags ==
    /\ held # <<>>
    /\ \E text \in {RESOURCE_TAGVAL_STOP, RESOURCE_TAGVAL_IN_MAINTENANCE},
          tagOk \in BOOLEAN :
          res' = IF tagOk
                 THEN [res EXCEPT
                          !.tags = add_tags(@, held[1].tags,
                                            create_powermgmt_tags(text))]
                 ELSE res
    /\ held' = <<>>
    /\ UNCHANGED <<scanVars, matching, provider, eventQueue, checkQueue, ops,
                   alertRule, window, powerLog, produced, redeliveries>>

\* a tag write of a handler, with the tags changing at the provider
NextTagWrite ==
    \/ manager_get
    \/ tags_changed_by_others
    \/ write_audit_tags

SpecTagWrite == InitTypes(ManagedResourceTypes) /\ [][NextTagWrite]_vars

\* a check is waiting for a resource that is either not exempt, with valid
\* power tags, or exempt with a power-on tag that is no valid value
InitExempt ==
    /\ now = At(WorkingDay, 18, 2, 0)
    /\ env = [TRIGGER_INTERVAL |-> 5, RESET_LAST_INVOCATION |-> FALSE]
    /\ timerLast = SlotAtOrBefore(now, env.TRIGGER_INTERVAL)
    /\ ticks = 0
    /\ manual = 0
    /\ subQueue = <<SubscriptionCheck(At(WorkingDay, 17, 55, 0))>>
    /\ \E rtype \in PowerResourceTypes, kind \in {"start", "stop"},
          tags \in { Tags(None, T_ON_8, T_OFF_18, None),
                     Tags(None, T_BAD_WORD, T_OFF_18, V_TRUE) } :
          res = [name |-> "res1", rtype |-> rtype,
                 power_state |-> FinalState(rtype, kind),
                 tags |-> tags, alert_ids |-> <<>>]
    /\ eventQueue = <<>>
    /\ scans = 0
    /\ scanLog = NoScan
    /\ prevScanNow = NoTime
    /\ firedBefore = {}
    /\ grid = NoGrid
    /\ PowerIdle

\* someone adds the exemption tag to the resource while a power action for
\* it is waiting in the queue
exemption_tag_added ==
    /\ eventQueue # <<>>
    /\ ~Truthy(res.tags["_POWERMGMT_EXEMPT_"])
    /\ res' = [res EXCEPT !.tags["_POWERMGMT_EXEMPT_"] = V_TRUE]
    /\ UNCHANGED <<scanVars, matching, provider, held, eventQueue, checkQueue, ops,
                   alertRule, window, powerLog, produced, redeliveries>>

\* the scan, the handlers and the maintenance events, with the exemption
\* tag added in between
NextExempt ==
    \/ process_sub_from_queue
    \/ exemption_tag_added
    \/ process_powermgmt_event
    \/ process_powermgmt_event_check
    \/ process_updatemgmt_event
    \/ ProviderProgress

SpecExempt == InitExempt /\ [][NextExempt]_vars

(***************************************************************************)
(* The workflow under at-least-once delivery: the queue host may deliver   *)
(* a message again after the invocation that handled it                    *)
(***************************************************************************)
\* the host keeps the message just handled for a second delivery (its
\* visibility timeout ran out before the message was deleted)
host_redelivers ==
    /\ powerLog.delivery = 1
    /\ redeliveries.pending = <<>>
    /\ redeliveries.count < MaxRedeliver
    /\ redeliveries' =
          [count |-> redeliveries.count + 1,
           pending |-> <<[msg |-> powerLog.msg[1], enqueued |-> powerLog.enqueued]>>]
    /\ UNCHANGED <<scanVars, matching, provider, held, res, eventQueue, checkQueue, ops, alertRule, window,
                   powerLog, produced>>

\* whether the pending message is a deferred check (otherwise a power action)
IsDeferredCheck(msg) == "continuation_token" \in DOMAIN msg

\* process_powermgmt_event on the second delivery of a power action
process_powermgmt_event_redelivered ==
    /\ redeliveries.pending # <<>>
    /\ ~IsDeferredCheck(redeliveries.pending[1].msg)
    /\ IF provider.exists
       THEN HandlePowerAction(
                redeliveries.pending[1].msg,
                handle_powermgmt_event_with_deferred_wait(
                    redeliveries.pending[1].msg, res),
                2, redeliveries.pending[1].enqueued)
       ELSE /\ PowerActionNotFound("process_powermgmt_event",
                                   redeliveries.pending[1].msg, 2,
                                   redeliveries.pending[1].enqueued)
            /\ UNCHANGED checkQueue
    /\ redeliveries' = [redeliveries EXCEPT !.pending = <<>>]
    /\ UNCHANGED <<scanVars, matching, provider, held, eventQueue, window, produced>>

\* process_powermgmt_event_check on the second delivery of a deferred check
process_powermgmt_event_check_redelivered ==
    /\ redeliveries.pending # <<>>
    /\ IsDeferredCheck(redeliveries.pending[1].msg)
    /\ IF provider.exists /\ PollRaises(redeliveries.pending[1].msg, res.rtype) # ""
       THEN CheckPowerActionRaises(redeliveries.pending[1].msg,
                                   PollRaises(redeliveries.pending[1].msg, res.rtype),
                                   checkQueue, 2, redeliveries.pending[1].enqueued)
       ELSE IF provider.exists
       THEN \E v \in Verdicts(redeliveries.pending[1].msg) :
                CheckPowerAction(redeliveries.pending[1].msg, v, checkQueue, 2,
                                 redeliveries.pending[1].enqueued)
       ELSE /\ PowerActionNotFound("process_powermgmt_event_check",
                                   redeliveries.pending[1].msg, 2,
                                   redeliveries.pending[1].enqueued)
            /\ UNCHANGED checkQueue
    /\ redeliveries' = [redeliveries EXCEPT !.pending = <<>>]
    /\ UNCHANGED <<scanVars, matching, provider, held, eventQueue, window, produced>>

\* scheduled actions under redelivery (no maintenance run is explored)
NextRedelivery ==
    \/ enqueue_power_action
    \/ process_powermgmt_event
    \/ process_powermgmt_event_check
    \/ ProviderProgress
    \/ host_redelivers
    \/ process_powermgmt_event_redelivered
    \/ process_powermgmt_event_check_redelivered

SpecRedelivery == InitPower /\ [][NextRedelivery]_vars

(***************************************************************************)
(* helpers.py: the alert condition matcher                                 *)
(***************************************************************************)
\* alerts queried for one call of find_matching_alert_ids
MaxAlerts == 2

\* str.startswith
StartsWith(s, prefix) ==
    Len(prefix) <= Len(s) /\ SubSeq(s, 1, Len(prefix)) = prefix

\* a JSON number where a string is expected (no text is a 1-tuple holding a
\* 3-letter element): truthy, and without a casefold method
NotAString == <<"int">>

\* a condition node as json.loads gives it: a bool, a number, a str, or a dict
\* with its keys; allOf and anyOf hold the lists under those keys, field and
\* equals what expr.get returns (None for a missing key)
NumNode ==
    [kind |-> "num", value |-> FALSE, keys |-> {}, allOf |-> <<>>, anyOf |-> <<>>,
     field |-> None, equals |-> None]

BoolNode(b) ==
    [kind |-> "bool", value |-> b, keys |-> {}, allOf |-> <<>>, anyOf |-> <<>>,
     field |-> None, equals |-> None]

StrNode ==
    [kind |-> "str", value |-> FALSE, keys |-> {}, allOf |-> <<>>, anyOf |-> <<>>,
     field |-> None, equals |-> None]

AllOfNode(subs) ==
    [kind |-> "dict", value |-> FALSE, keys |-> {"allOf"}, allOf |-> subs,
     anyOf |-> <<>>, field |-> None, equals |-> None]

AnyOfNode(subs) ==
    [kind |-> "dict", value |-> FALSE, keys |-> {"anyOf"}, allOf |-> <<>>,
     anyOf |-> subs, field |-> None, equals |-> None]

LeafNode(field, equals) ==
    [kind |-> "dict", value |-> FALSE, keys |-> {"field", "equals"},
     allOf |-> <<>>, anyOf |-> <<>>, field |-> field, equals |-> equals]

\* a leaf with a third key beside field and equals
LeafNodeExtraKey(field, equals) ==
    [LeafNode(field, equals) EXCEPT !.keys = {"field", "equals", "operator"}]

\* a leaf without its equals key
LeafNodeNoEquals(field) ==
    [LeafNode(field, None) EXCEPT !.keys = {"field"}]

\* ConditionEvalCriteria(resource_id, resource_group, resource_type)
ConditionEvalCriteria(resource_id, resource_group, resource_type) ==
    [resource_id |-> resource_id, resource_group |-> resource_group,
     resource_type |-> resource_type]

\* a faulty variant of FieldEquals: the criteria value is compared as it is
FieldEqualsExactCase(value, equals) ==
    IF Truthy(value) THEN value = Casefold(equals) ELSE FALSE

\* criteria.<field>.casefold() == equals.casefold() if criteria.<field> else False
FieldEquals(value, equals) ==
    IF Truthy(value) THEN Casefold(value) = Casefold(equals) ELSE FALSE

FIELD_GROUP ==
    <<"r", "e", "s", "o", "u", "r", "c", "e", "G", "r", "o", "u", "p">>
FIELD_ID ==
    <<"r", "e", "s", "o", "u", "r", "c", "e", "I", "d">>
FIELD_TYPE ==
    <<"r", "e", "s", "o", "u", "r", "c", "e", "T", "y", "p", "e">>

\* eval_dict: "True", "False", or the exception raised (equals.casefold()
\* raises AttributeError on a value that is not a string)
eval_dict(expr, criteria) ==
    IF Cardinality(expr.keys) # 2 \/ ~Truthy(expr.field) \/ ~Truthy(expr.equals)
    THEN "UnparsableCondition"
    ELSE IF expr.equals = NotAString
    THEN "AttributeError"
    ELSE LET result ==
                 CASE expr.field = FIELD_GROUP ->
                        FieldEquals(criteria.resource_group, expr.equals)
                   [] expr.field = FIELD_ID ->
                        FieldEquals(criteria.resource_id, expr.equals)
                   [] expr.field = FIELD_TYPE ->
                        FieldEquals(criteria.resource_type, expr.equals)
                   [] OTHER -> FALSE
         IN  IF result THEN "True" ELSE "False"

\* evaluate_condition: "True", "False", or the exception raised; all() and
\* any() consume the generator in order and stop at the first deciding value;
\* '"allOf" in expr' raises TypeError on a number
RECURSIVE evaluate_condition(_, _)
RECURSIVE AllOf(_, _)
RECURSIVE AnyOf(_, _)
AllOf(subs, criteria) ==
    IF subs = <<>> THEN "True"
    ELSE LET v == evaluate_condition(Head(subs), criteria)
         IN  IF v = "True" THEN AllOf(Tail(subs), criteria) ELSE v

AnyOf(subs, criteria) ==
    IF subs = <<>> THEN "False"
    ELSE LET v == evaluate_condition(Head(subs), criteria)
         IN  IF v = "False" THEN AnyOf(Tail(subs), criteria) ELSE v

evaluate_condition(expr, criteria) ==
    IF expr.kind = "bool" THEN IF expr.value THEN "True" ELSE "False"
    ELSE IF expr.kind = "num" THEN "TypeError"
    ELSE IF "allOf" \in expr.keys THEN AllOf(expr.allOf, criteria)
    ELSE IF "anyOf" \in expr.keys THEN AnyOf(expr.anyOf, criteria)
    ELSE IF expr.kind = "dict" THEN eval_dict(expr, criteria)
    ELSE "UnparsableCondition"

\* resource_id.split("/")[4]
ResourceGroupOf(resource_id) == Split(resource_id, "/")[5]

\* the criteria condition_matches builds for the resource
CriteriaOf(resource_id, resource_type) ==
    ConditionEvalCriteria(resource_id, ResourceGroupOf(resource_id), resource_type)

\* scope_matches: the casefolded resource id starts with a scope as stored
scope_matches(alert, resource_id) ==
    \E i \in 1..Len(alert.scopes) :
        StartsWith(Casefold(resource_id), alert.scopes[i])

\* the except clause of condition_matches: UnparsableCondition is a
\* non-match, any other exception passes
Caught(v) == IF v = "UnparsableCondition" THEN "False" ELSE v

\* condition_matches: "True" for no condition or one that evaluates true,
\* "False", or the exception that escapes (condition is <<>> for None, else
\* <<expr>>)
condition_matches(alert, resource_id, resource_type) ==
    IF alert.condition = <<>>
    THEN "True"
    ELSE Caught(evaluate_condition(alert.condition[1],
                                   CriteriaOf(resource_id, resource_type)))

\* find_matching_alert_ids: the list comprehension takes the alerts in order
\* (the condition is evaluated only when a scope matches) and an exception
\* ends it
RECURSIVE MatchFrom(_, _, _, _)
MatchFrom(all_alerts, resource_id, resource_type, ids) ==
    IF all_alerts = <<>> THEN Returned(ids)
    ELSE IF ~scope_matches(Head(all_alerts), resource_id)
    THEN MatchFrom(Tail(all_alerts), resource_id, resource_type, ids)
    ELSE LET c == condition_matches(Head(all_alerts), resource_id, resource_type)
         IN  IF c \notin {"True", "False"} THEN Raised(c)
             ELSE MatchFrom(Tail(all_alerts), resource_id, resource_type,
                            IF c = "True"
                            THEN Append(ids, Head(all_alerts).id) ELSE ids)

find_matching_alert_ids(all_alerts, resource_id, resource_type) ==
    MatchFrom(all_alerts, resource_id, resource_type, <<>>)

\* Inputs: two resources of one subscription in different resource groups
\* (/s/0/g/<group>/p/Ns/Hn/a stands for /subscriptions/0/resourceGroups/
\* <group>/providers/<namespace>/<type>/<name>), scopes as an alert stores
\* them, and condition trees
RID_AB == <<"/", "s", "/", "0", "/", "g", "/", "A", "b", "/", "p", "/", "N", "s", "/", "H", "n", "/", "a">>
RID_EB == <<"/", "s", "/", "0", "/", "g", "/", "E", "b", "/", "p", "/", "N", "s", "/", "H", "n", "/", "a">>
ResourceIds == {RID_AB, RID_EB}

TYPE_STORED == <<"N", "s", "/", "H", "n">>
TYPE_LOWER == <<"n", "s", "/", "h", "n">>

SCOPE_SUB == <<"/", "s", "/", "0">>
SCOPE_GROUP_STORED == <<"/", "s", "/", "0", "/", "g", "/", "A", "b">>
SCOPE_GROUP_LOWER == <<"/", "s", "/", "0", "/", "g", "/", "a", "b">>
SCOPE_OTHER_SUB == <<"/", "s", "/", "1">>

ScopeInputs ==
    { <<>>, <<SCOPE_SUB>>, <<SCOPE_GROUP_STORED>>, <<SCOPE_OTHER_SUB>>,
      <<SCOPE_OTHER_SUB, SCOPE_GROUP_LOWER>> }

GROUP_UPPER == <<"A", "B">>
GROUP_OTHER == <<"e", "b">>

\* a field that eval_dict does not know
FIELD_UNKNOWN == <<"l", "o", "c", "a", "t", "i", "o", "n">>

\* allOf[resourceGroup = AB, resourceType = ns/hn]
GroupAndType ==
    AllOfNode(<<LeafNode(FIELD_GROUP, GROUP_UPPER), LeafNode(FIELD_TYPE, TYPE_LOWER)>>)

ConditionInputs ==
    { BoolNode(TRUE), BoolNode(FALSE),
      LeafNode(FIELD_GROUP, GROUP_UPPER),
      LeafNode(FIELD_GROUP, GROUP_OTHER),
      LeafNode(FIELD_TYPE, TYPE_LOWER),
      LeafNode(FIELD_ID, Casefold(RID_EB)),
      LeafNode(FIELD_UNKNOWN, GROUP_UPPER),
      GroupAndType,
      AllOfNode(<<>>), AnyOfNode(<<>>),
      AllOfNode(<<BoolNode(TRUE), LeafNode(FIELD_GROUP, GROUP_OTHER)>>),
      AnyOfNode(<<LeafNode(FIELD_GROUP, GROUP_OTHER), BoolNode(FALSE)>>),
      AnyOfNode(<<GroupAndType, LeafNode(FIELD_GROUP, GROUP_OTHER)>>),
      AnyOfNode(<<BoolNode(FALSE), StrNode>>),
      AnyOfNode(<<BoolNode(TRUE), StrNode>>),
      AllOfNode(<<BoolNode(FALSE), StrNode>>),
      AllOfNode(<<BoolNode(TRUE), NumNode>>),
      LeafNodeExtraKey(FIELD_GROUP, GROUP_UPPER),
      LeafNodeNoEquals(FIELD_GROUP),
      LeafNode(FIELD_GROUP, NotAString),
      NumNode,
      StrNode }

\* the conditions the queried alerts carry
AlertConditionInputs ==
    { BoolNode(FALSE),
      LeafNode(FIELD_GROUP, GROUP_UPPER),
      GroupAndType,
      AnyOfNode(<<LeafNode(FIELD_GROUP, GROUP_OTHER), BoolNode(FALSE)>>),
      AnyOfNode(<<BoolNode(TRUE), StrNode>>),
      AllOfNode(<<BoolNode(FALSE), StrNode>>),
      LeafNodeExtraKey(FIELD_GROUP, GROUP_UPPER),
      LeafNode(FIELD_GROUP, NotAString),
      NumNode,
      StrNode }

\* an alert as the resource graph returns it
Alert(id, scopes, condition) ==
    [id |-> id, scopes |-> scopes, condition |-> condition]

AlertIds == <<"alert1", "alert2", "alert3">>

InitAlerts ==
    /\ ScanIdle
    /\ res = [name |-> "res1", rtype |-> "vm", power_state |-> "running",
              tags |-> Tags(None, T_ON_8, T_OFF_18, None), alert_ids |-> <<>>]
    /\ eventQueue = <<>>
    /\ WorkflowIdle
    /\ \E resource_id \in ResourceIds, resource_type \in {TYPE_STORED, TYPE_LOWER} :
          matching = [NoMatching EXCEPT !.phase = "query",
                                        !.resource_id = resource_id,
                                        !.resource_type = resource_type]

alertFrame == <<scanVars, res, eventQueue, powerVars>>

\* query_metric_alerts returns one more alert
query_metric_alerts ==
    /\ matching.phase = "query"
    /\ matching.eval = <<>>
    /\ Len(matching.alerts) < MaxAlerts
    /\ \E scopes \in ScopeInputs,
          condition \in {<<>>} \cup {<<c>> : c \in AlertConditionInputs} :
          matching' =
              [matching EXCEPT
                  !.alerts = Append(@, Alert(AlertIds[Len(@) + 1], scopes, condition))]
    /\ UNCHANGED alertFrame

\* find_matching_alert_ids(alerts, resource_id, resource_type)
match_alerts ==
    /\ matching.phase = "query"
    /\ matching.eval = <<>>
    /\ matching' =
          [matching EXCEPT
              !.phase = "matched",
              !.result = find_matching_alert_ids(matching.alerts,
                                                 matching.resource_id,
                                                 matching.resource_type)]
    /\ UNCHANGED alertFrame

\* evaluate_condition(expr, criteria) on its own, for the resource's criteria
evaluate ==
    /\ matching.phase = "query"
    /\ matching.alerts = <<>>
    /\ \E expr \in ConditionInputs :
          matching' =
              [matching EXCEPT
                  !.phase = "evaluated",
                  !.eval = <<[expr |-> expr,
                              value |-> evaluate_condition(
                                           expr,
                                           CriteriaOf(matching.resource_id,
                                                      matching.resource_type))]>>]
    /\ UNCHANGED alertFrame

NextAlerts == query_metric_alerts \/ match_alerts \/ evaluate

SpecAlerts == InitAlerts /\ [][NextAlerts]_vars

(***************************************************************************)
(* Properties                                                              *)
(***************************************************************************)
\* the resource the latest scan saw
Seen == scanLog.seen[1]

\* the croncheck entries and the actions of the latest scan
Checks ==
    {scanLog.outcome.cronchecks[i] : i \in 1..Len(scanLog.outcome.cronchecks)}
Enqueued ==
    {scanLog.outcome.enqueued[i] : i \in 1..Len(scanLog.outcome.enqueued)}

\* the last check as a window's lower end: floored, the epoch when missing
WindowStart(last_check) ==
    IF last_check = NoTime THEN 0 ELSE FloorToMinute(last_check)

\* whether the expanded expression c has an occurrence in from..to
OccursWithin(c, from, to) == \E t \in from..to : Occurs(c, t)

\* the latest occurrence of a cron expression at or before t
LatestAtOrBefore(expr, t) ==
    IF Occurs(ParseCron(expr), t) THEN t ELSE get_prev(expr, t)

\* one week
Week == 7 * UnitsPerDay

\* C1: a cron occurrence makes should_process_cron_event return true in at
\* most one tick of a sequence of ticks that each carry the time of the
\* preceding tick: no check of the latest scan fires for an <<event,
\* occurrence>> that a check of an earlier scan fired for.
C1_AtMostOneFiringPerOccurrence ==
    \A c \in Checks :
        c.actioning /\ c.last_check # NoTime
            => <<c.event, c.prev>> \notin firedBefore

\* C2: once the last check, floored to the minute, is later than the latest
\* occurrence at or before now (no occurrence lies between them), the check
\* does not fire.
C2_NoRefireOnceLastCheckPassed ==
    \A c \in Checks :
        ( /\ c.last_check # NoTime
          /\ ~OccursWithin(ParseCron(c.cron), FloorToMinute(c.last_check), c.now) )
            => ~c.actioning

\* C2 happens: an occurrence that fired in an earlier scan is checked again
\* with a last check past it, and does not fire
C2_Witness ==
    \E c \in Checks :
        /\ c.last_check # NoTime
        /\ FloorToMinute(c.last_check) > c.prev
        /\ <<c.event, c.prev>> \in firedBefore
        /\ ~c.actioning

\* whether a schedule value has an occurrence at instant t: a cron expression
\* (expanded as c) where it says, a weekday grid at the time in the slot of
\* t's weekday
ScheduleOccurs(value, c, t) ==
    LET SlotAt(parts, minuteOfDay) ==
            /\ ParseInt(parts[1]) = minuteOfDay \div 60
            /\ (IF Len(parts) > 1 THEN ParseInt(parts[2]) ELSE 0) = minuteOfDay % 60
    IN  IF c.valid
        THEN Occurs(c, t)
        ELSE /\ t % SubMinute = 0
             /\ SlotAt(Split(Split(value, ",")[Weekday(DayOf(t)) + 1], ":"),
                       MinuteOfDay(t))

\* a cron expression, or a grid of seven comma-separated slots that each are
\* '-', '*' or a time
IsSchedule(value) ==
    LET Slots(days) ==
            /\ Len(days) = 7
            /\ \A i \in 1..7 :
                  \/ IsNoActionSlot(days[i])
                  \/ ParseInt(Split(days[i], ":")[1]) # BadInt
    IN  \/ is_valid_cron_value(value)
        \/ is_valid_schedule_value(value) /\ Slots(Split(value, ","))

\* every occurrence of a schedule in from..to that no later opposing
\* occurrence in the window overrides led to the action
Served(value, c, opposing, oc, action, from, to) ==
    \A t \in from..to :
        ( /\ ScheduleOccurs(value, c, t)
          /\ ~( /\ Truthy(opposing)
                /\ \E u \in (t + 1)..to : ScheduleOccurs(opposing, oc, u) ) )
            => action \in Enqueued

\* C3: no occurrence of a resource's power-off (power-on) cron or weekday
\* grid is missed: an occurrence between the preceding scan and this one, not
\* overridden by a later opposing occurrence, with the resource now in the
\* stoppable (startable) state, has this scan enqueue the stop (start).
C3_NoMissedFiring ==
    ( /\ prevScanNow # NoTime
      /\ scanLog.last_check # NoTime
      /\ ~env.RESET_LAST_INVOCATION
      /\ Seen.tags["Schedule"] = None
      /\ ~Truthy(Seen.tags["_POWERMGMT_EXEMPT_"])
      /\ \A k \in {"PowerOn", "PowerOff"} :
            Truthy(Seen.tags[k]) => IsSchedule(Seen.tags[k]) )
        => /\ (Truthy(Seen.tags["PowerOff"]) /\ in_stoppable_state(Seen))
                => Served(Seen.tags["PowerOff"], ParseCron(Seen.tags["PowerOff"]),
                          Seen.tags["PowerOn"], ParseCron(Seen.tags["PowerOn"]),
                          "stop", prevScanNow + 1, scanLog.now - 1)
           /\ (Truthy(Seen.tags["PowerOn"]) /\ in_startable_state(Seen))
                => Served(Seen.tags["PowerOn"], ParseCron(Seen.tags["PowerOn"]),
                          Seen.tags["PowerOff"], ParseCron(Seen.tags["PowerOff"]),
                          "start", prevScanNow + 1, scanLog.now - 1)

\* C4, as claimed: with no opposing cron the check fires exactly when an
\* occurrence lies between the floored last check and now, now included (the
\* latest occurrence at or before now); a missing last check always fires.
C4_FiresIffOccurrenceUpToNow ==
    \A c \in Checks :
        ~Truthy(c.override)
            => ( c.actioning <=>
                   \/ c.last_check = NoTime
                   \/ OccursWithin(ParseCron(c.cron), FloorToMinute(c.last_check),
                                   c.now) )

\* C4, amended: with no opposing cron the check fires exactly when an
\* occurrence lies between the floored last check and now, now excluded (the
\* latest occurrence strictly before now); a missing last check always fires.
C4_FiresIffOccurrenceBeforeNow ==
    \A c \in Checks :
        ~Truthy(c.override)
            => ( c.actioning <=>
                   \/ c.last_check = NoTime
                   \/ OccursWithin(ParseCron(c.cron), FloorToMinute(c.last_check),
                                   c.now - 1) )

\* C4 happens: a check without opposing cron fires for an occurrence in the
\* minute the last check was floored to
C4_Witness ==
    \E c \in Checks :
        /\ ~Truthy(c.override)
        /\ c.last_check # NoTime
        /\ c.last_check # c.prev
        /\ FloorToMinute(c.last_check) = c.prev
        /\ c.actioning

\* the precedence rule for a check, its occurrence P and the opposing
\* occurrence E: with P not before the last check, it fires exactly when E
\* is not later than P
Precedence(c, P, E) ==
    WindowStart(c.last_check) <= P => (c.actioning <=> E <= P)

\* C5, as claimed: precedence between the latest occurrences at or before now
\* of the event's cron and of the opposing cron.
C5_PrecedenceUpToNow ==
    \A c \in Checks :
        Truthy(c.override)
            => Precedence(c, LatestAtOrBefore(c.cron, c.now),
                          LatestAtOrBefore(c.override, c.now))

\* C5, amended: precedence between the latest occurrences strictly before
\* now of the event's cron and of the opposing cron.
C5_PrecedenceBeforeNow ==
    \A c \in Checks :
        Truthy(c.override)
            => Precedence(c, get_prev(c.cron, c.now), get_prev(c.override, c.now))

\* C5 happens: a check whose occurrence is in the window is suppressed by a
\* later opposing occurrence
C5_Witness ==
    \E c \in Checks :
        /\ Truthy(c.override)
        /\ c.last_check # NoTime
        /\ WindowStart(c.last_check) <= c.prev
        /\ get_prev(c.override, c.now) > c.prev
        /\ ~c.actioning

\* the last check the cron checks of the latest scan were given
ScanLastCheck ==
    IF env.RESET_LAST_INVOCATION THEN NoTime ELSE scanLog.last_check

\* what the latest scan would have enqueued for the same resource one week
\* later, on a working day
EnqueuedAWeekLater ==
    ProcessResource(Seen,
                    IF scanLog.last_check = NoTime THEN NoTime
                    ELSE scanLog.last_check + Week,
                    env.RESET_LAST_INVOCATION, scanLog.now + Week).enqueued

\* whether the preset named by a Schedule value carries the holiday flag
HasHolidayFlag(schedule_value, preset) ==
    /\ schedule_value # None
    /\ preset.found
    /\ preset.NO_POWERON_ON_PUBLIC_HOLIDAYS

\* C6: on a public holiday a scan never enqueues a start for a resource whose
\* Schedule preset carries the holiday flag, and still enqueues its stop when
\* the power-off cron is due; for any other preset and for explicit tags the
\* scan enqueues what it would on a working day.
C6_HolidaySuppression ==
    (scans > 0 /\ IsTagged(Seen) /\ is_public_holiday(scanLog.now))
        => IF HasHolidayFlag(Seen.tags["Schedule"],
                             POWER_SCHEDULE_CONFIGS(Casefold(Seen.tags["Schedule"])))
           THEN /\ "start" \notin Enqueued
                /\ ( /\ in_stoppable_state(Seen)
                     /\ ~Truthy(Seen.tags["_POWERMGMT_EXEMPT_"])
                     /\ \/ ScanLastCheck = NoTime
                        \/ OccursWithin(
                              ParseCron(POWER_SCHEDULE_CONFIGS(
                                  Casefold(Seen.tags["Schedule"])).PowerOff),
                              FloorToMinute(ScanLastCheck), scanLog.now - 1) )
                      => "stop" \in Enqueued
           ELSE /\ ~is_public_holiday(scanLog.now + Week)
                /\ scanLog.outcome.enqueued = EnqueuedAWeekLater

\* C6 happens: on a holiday the start of a flagged preset is dropped that
\* a working day would have enqueued
C6_Witness ==
    /\ scans > 0 /\ IsTagged(Seen) /\ is_public_holiday(scanLog.now)
    /\ HasHolidayFlag(Seen.tags["Schedule"],
                      POWER_SCHEDULE_CONFIGS(Casefold(Seen.tags["Schedule"])))
    /\ EnqueuedAWeekLater = <<"start">>
    /\ scanLog.outcome.enqueued = <<>>

\* the tag keys of a resource whose value is invalid
InvalidKeys(r) ==
    {k \in {"Schedule"} :
        r.tags[k] # None /\ ~POWER_SCHEDULE_CONFIGS(Casefold(r.tags[k])).found}
    \cup {k \in {"PowerOn", "PowerOff"} :
            Truthy(r.tags[k]) /\ ~is_valid_powertag_value(r.tags[k])}

\* C7: a scan of a resource that carries an invalid Schedule, PowerOn or
\* PowerOff value writes a diagnostic status naming the resource and an
\* invalid key with its value, and enqueues nothing for it.
C7_InvalidTagReported ==
    (scans > 0 /\ IsTagged(Seen) /\ InvalidKeys(Seen) # {})
        => /\ scanLog.outcome.enqueued = <<>>
           /\ \E k \in InvalidKeys(Seen) :
                 scanLog.outcome.tagWrite
                     = <<InvalidTagStatus(Seen, k, Seen.tags[k])>>

\* C8: validation and grid conversion never throw: no scan ends with an
\* exception, and every PowerOn or PowerOff value is_valid_powertag_value
\* accepts is converted without one.
C8_ConversionNeverThrows ==
    (scans > 0 /\ IsTagged(Seen))
        => /\ scanLog.outcome.raised = ""
           /\ \A k \in {"PowerOn", "PowerOff"} :
                 (Truthy(Seen.tags[k]) /\ is_valid_powertag_value(Seen.tags[k]))
                     => ToCron(Seen.tags[k], scanLog.now).raised = ""

\* whether the resource's power-on and power-off values are both empty or
\* absent
BothEmpty(sched) ==
    ~sched.invalid /\ ~Truthy(sched.power_on) /\ ~Truthy(sched.power_off)

\* C9: a scan enqueues nothing for a resource that carries the exemption tag,
\* nor for one whose power-on and power-off values are both empty or absent.
C9_OptOutNeverEnqueues ==
    ( /\ scans > 0 /\ IsTagged(Seen)
      /\ \/ Seen.tags["_POWERMGMT_EXEMPT_"] # None
         \/ BothEmpty(ResolveSchedule(Seen, scanLog.now)) )
        => scanLog.outcome.enqueued = <<>>

\* the slot of the day under conversion
TodaySlot == grid.slots[Weekday(DayOf(now)) + 1]

\* an expanded expression with its occurrences at hh:mm on cron weekday dow,
\* and no others
OnlyAt(c, hh, mm, dow) ==
    /\ c.valid
    /\ c.mins = {mm} /\ c.hours = {hh} /\ c.dows = {dow}
    /\ c.doms = 1..31 /\ c.months = 1..12

Polled == powerLog.handler = "process_powermgmt_event_check"

\* the latest invocation handled a power action
Handled == powerLog.handler = "process_powermgmt_event"

\* the resource as the latest invocation fetched it
Fetched == powerLog.pre[1]

\* the latest invocation was a poll that found the operation still in
\* progress (or could not write the outcome tag)
PolledInProgress == Polled /\ powerLog.result \in {"inprogress", "timeout"}

\* C11 as claimed: a poll that is still in progress ends in "timeout" exactly
\* when 10 in-progress polls went before it (it is the 11th evaluation); each
\* of the first 10 sends the check again.
C11_TimeoutOnEleventhPoll ==
    PolledInProgress =>
        /\ powerLog.result = "timeout" <=>
              powerLog.wait_retries >= DEFERRED_CHECK_MAX_RETRIES
        /\ powerLog.wait_retries < DEFERRED_CHECK_MAX_RETRIES =>
              powerLog.enqueued # <<>>

\* C11 amended: a poll that is still in progress ends in "timeout", sending
\* nothing, exactly when 9 in-progress polls went before it (it is the 10th
\* evaluation and the counter reaches 10); each of the first 9 sends the
\* check again with the counter one higher.
C11_TimeoutOnTenthPoll ==
    PolledInProgress =>
        /\ powerLog.result = "timeout" <=>
              powerLog.wait_retries + 1 = DEFERRED_CHECK_MAX_RETRIES
        /\ powerLog.result = "timeout" => powerLog.enqueued = <<>>
        /\ powerLog.result = "inprogress" =>
              /\ Len(powerLog.enqueued) = 1
              /\ powerLog.enqueued[1].wait_retries = powerLog.wait_retries + 1
              /\ powerLog.enqueued[1] \in {checkQueue[i] : i \in 1..Len(checkQueue)}

\* a chain created with wait_retries 0 has reached its timeout
C11_Witness ==
    /\ Polled
    /\ powerLog.result = "timeout"
    /\ powerLog.wait_retries = 9
    /\ powerLog.enqueued = <<>>

\* the deferred checks waiting for operation t
Waiting(t) ==
    {i \in 1..Len(checkQueue) : checkQueue[i].continuation_token = t}

\* the results at which a chain of polls ends ("failure" is the flexible
\* server's name for a failed stop)
TerminalResults == {"succeeded", "failed", "failure", "timeout"}

\* C12: a chain of deferred checks ends within 10 polls: a waiting check has
\* been polled at most 9 times before, every poll either ends the chain with
\* a terminal result and sends nothing, or sends one check for the same
\* operation with wait_retries one higher; an operation has at most one check
\* waiting, and none once a poll of it was terminal.
C12_PollingTerminates ==
    /\ \A i \in 1..Len(checkQueue) :
          checkQueue[i].wait_retries < DEFERRED_CHECK_MAX_RETRIES
    /\ \A t \in 1..Len(ops) :
          /\ Cardinality(Waiting(t)) <= 1
          /\ ops[t].closed => Waiting(t) = {}
    /\ Polled =>
          /\ powerLog.wait_retries + 1 <= DEFERRED_CHECK_MAX_RETRIES
          /\ powerLog.result \in TerminalResults \cup {"inprogress"}
          /\ powerLog.result \in TerminalResults <=> powerLog.enqueued = <<>>
          /\ powerLog.result \in TerminalResults => ops[powerLog.token].closed
          /\ powerLog.enqueued # <<>> =>
                /\ Len(powerLog.enqueued) = 1
                /\ powerLog.enqueued[1].wait_retries = powerLog.wait_retries + 1
                /\ powerLog.enqueued[1].continuation_token = powerLog.token
                /\ ~ops[powerLog.token].closed

\* a chain ended in success after polls that found the operation in progress
C12_Witness ==
    /\ Polled
    /\ powerLog.result = "succeeded"
    /\ powerLog.wait_retries > 1
    /\ ops[powerLog.token].closed
    /\ Waiting(powerLog.token) = {}

\* the latest invocation handled a power action of this kind
HandledAction(action) == Handled /\ powerLog.action = action

\* the latest invocation handled a 'stop' for a stoppable resource whose
\* status tag held an in-maintenance-window value
StopInsideWindow ==
    /\ HandledAction(RESOURCE_ACTION_STOP)
    /\ in_stoppable_state(Fetched)
    /\ PowerMgmtStatus(Fetched) \in
          { "In maintenance window (was stopped)",
            "In maintenance window (stop pending)",
            "In maintenance window" }

\* C13: a 'stop' handled for a stoppable resource whose status tag is an
\* in-maintenance-window value issues no provider stop and enqueues no
\* deferred check; its one write is the status 'In maintenance window (stop
\* pending)', which the resource then carries (a write the provider refuses
\* leaves the tag as it was).
C13_StopDeferredInsideWindow ==
    StopInsideWindow =>
        /\ powerLog.call = ""
        /\ powerLog.enqueued = <<>>
        /\ powerLog.token = 0
        /\ powerLog.tagWrites = <<"In maintenance window (stop pending)">>
        /\ PowerMgmtStatus(res) \in
              { "In maintenance window (stop pending)", PowerMgmtStatus(Fetched) }

\* a scheduled stop met a VM that was started for the window and left it
\* tagged as stop pending
C13_Witness ==
    /\ StopInsideWindow
    /\ PowerMgmtStatus(Fetched) = "In maintenance window (was stopped)"
    /\ PowerMgmtStatus(res) = "In maintenance window (stop pending)"
    /\ IsRunning(res)

C14_WitnessInfoOnly ==
    /\ HandledAction(RESOURCE_ACTION_STOP_POST_UPDATES)
    /\ in_stoppable_state(Fetched)
    /\ powerLog.call = ""
    /\ PowerMgmtStatus(res) = "Maintenance window completed"

\* the latest invocation polled an operation of this kind of action
PolledAction(action) == Polled /\ powerLog.action = action

\* what a 'stop_post_updates' handled now would call
PostUpdatesCall == StopPostUpdates(res, FALSE).call

\* C15: a 'start_for_updates' for a startable resource issues a start and
\* writes nothing itself; the poll that sees the start succeeded writes 'In
\* maintenance window (was stopped)', a poll with another result writes
\* nothing. For a resource that is not startable it issues no start and
\* writes 'In maintenance window' at once. With 'was stopped' a later
\* stop_post_updates stops the resource if it is stoppable; with 'In
\* maintenance window' it does not.
C15_StartForUpdates ==
    /\ HandledAction(RESOURCE_ACTION_START_PRE_UPDATES) =>
          /\ powerLog.call = "start" <=> in_startable_state(Fetched)
          /\ powerLog.call = "start" =>
                /\ powerLog.tagWrites = <<>>
                /\ PowerMgmtStatus(res) = PowerMgmtStatus(Fetched)
                /\ Len(powerLog.enqueued) = 1
                /\ powerLog.enqueued[1].tag_text =
                      "In maintenance window (was stopped)"
                /\ powerLog.enqueued[1].wait_retries = 0
          /\ powerLog.call # "start" =>
                /\ powerLog.call = ""
                /\ powerLog.enqueued = <<>>
                /\ powerLog.tagWrites = <<"In maintenance window">>
                /\ PowerMgmtStatus(res) \in
                      { "In maintenance window", PowerMgmtStatus(Fetched) }
                /\ PowerMgmtStatus(res) = "In maintenance window" =>
                      PostUpdatesCall = ""
    /\ PolledAction(RESOURCE_ACTION_START_PRE_UPDATES) =>
          IF powerLog.result = "succeeded"
          THEN /\ powerLog.tagWrites = <<"In maintenance window (was stopped)">>
               /\ PowerMgmtStatus(res) = "In maintenance window (was stopped)"
               /\ PostUpdatesCall = "stop" <=> in_stoppable_state(res)
          ELSE PowerMgmtStatus(res) = PowerMgmtStatus(Fetched)

\* a stopped VM was started for the window and, the start having succeeded
\* after a poll that found it in progress, carries 'was stopped'
C15_Witness ==
    /\ PolledAction(RESOURCE_ACTION_START_PRE_UPDATES)
    /\ powerLog.result = "succeeded"
    /\ powerLog.wait_retries > 0
    /\ PowerMgmtStatus(Fetched) # "In maintenance window (was stopped)"
    /\ PowerMgmtStatus(res) = "In maintenance window (was stopped)"
    /\ in_stoppable_state(res)

\* a running VM was marked 'In maintenance window' without a start
C15_WitnessRunning ==
    /\ HandledAction(RESOURCE_ACTION_START_PRE_UPDATES)
    /\ ~in_startable_state(Fetched)
    /\ powerLog.call = ""
    /\ PowerMgmtStatus(res) = "In maintenance window"

\* the window's post-maintenance event has been processed and every action
\* and check has been handled
WindowOver == window = "done" /\ eventQueue = <<>> /\ checkQueue = <<>>

\* C16: once the post-maintenance event of a window has been processed and
\* the resulting action has completed, a VM's status tag is none of the
\* in-maintenance-window values, and a scheduled stop handled after the
\* window for a stoppable VM is executed.
C16_MarkerClearedAfterWindow ==
    /\ (WindowOver /\ res.rtype = "vm") =>
          PowerMgmtStatus(res) \notin
              { "In maintenance window (was stopped)",
                "In maintenance window (stop pending)",
                "In maintenance window" }
    /\ ( /\ window = "done"
         /\ res.rtype = "vm"
         /\ HandledAction(RESOURCE_ACTION_STOP)
         /\ in_stoppable_state(Fetched) ) =>
          powerLog.call = "stop"

\* the step is the processing of the post-maintenance event of a window in
\* which a scheduled stop of the VM was turned into 'stop pending'
PostEventWithStopPending ==
    /\ window = "in" /\ window' = "done"
    /\ res.rtype = "vm"
    /\ in_stoppable_state(res)
    /\ PowerMgmtStatus(res) = "In maintenance window (stop pending)"

\* C17: a scheduled stop deferred inside a maintenance window is taken up
\* again: the post-maintenance event of that window enqueues a
\* 'stop_post_updates' action for the VM.
C17_DeferredStopResumed ==
    [][PostEventWithStopPending =>
          /\ Len(eventQueue') = Len(eventQueue) + 1
          /\ eventQueue'[Len(eventQueue')].action = RESOURCE_ACTION_STOP_POST_UPDATES
          /\ eventQueue'[Len(eventQueue')].id = res.name]_vars

\* the latest invocation handled the second delivery of a message whose
\* first delivery had issued a provider call (a power action) or sent the
\* check again (a deferred check)
SecondDeliveryAfterEffect == powerLog.delivery = 2 /\ powerLog.before # <<>>

\* C18: the second delivery of a message whose first delivery acted issues no
\* provider call and enqueues no deferred check, so no operation of the
\* provider has more than one check waiting.
C18_RedeliveryIdempotent ==
    SecondDeliveryAfterEffect =>
        /\ powerLog.call = ""
        /\ powerLog.enqueued = <<>>


(***************************************************************************)
(* Properties of the alert condition matcher                               *)
(***************************************************************************)
\* two characters are the same letter in either case, or the same character
SameCharIgnoringCase(a, b) ==
    \/ a = b
    \/ \E k \in 1..Len(UpperLetters) :
          {a, b} = {UpperLetters[k], LowerLetters[k]}

\* two texts are equal ignoring case
SameIgnoringCase(a, b) ==
    /\ Len(a) = Len(b)
    /\ \A i \in 1..Len(a) : SameCharIgnoringCase(a[i], b[i])

\* the text starts with the prefix, ignoring case
StartsWithIgnoringCase(s, prefix) ==
    /\ Len(prefix) <= Len(s)
    /\ SameIgnoringCase(SubSeq(s, 1, Len(prefix)), prefix)

\* the alert matches the resource as claimed: a scope is a prefix of the
\* resource id ignoring case, and the condition, if any, evaluates true
ShouldMatch(alert, resource_id, resource_type) ==
    /\ \E i \in 1..Len(alert.scopes) :
          StartsWithIgnoringCase(resource_id, alert.scopes[i])
    /\ \/ alert.condition = <<>>
       \/ evaluate_condition(alert.condition[1],
                             CriteriaOf(resource_id, resource_type)) = "True"

\* the ids of the alerts that should match, in the order of the alerts
MatchingIds(all_alerts, resource_id, resource_type) ==
    LET Pick(i) == IF ShouldMatch(all_alerts[i], resource_id, resource_type)
                   THEN <<all_alerts[i].id>> ELSE <<>>
        Ids[n \in 0..Len(all_alerts)] ==
            IF n = 0 THEN <<>> ELSE Ids[n - 1] \o Pick(n)
    IN  Ids[Len(all_alerts)]

\* C19: find_matching_alert_ids returns exactly the ids of the alerts one of
\* whose scopes, in whatever letter case it is stored, is a prefix of the
\* resource id ignoring case, and whose condition is absent or evaluates
\* true; an alert without scopes is never among them.
C19_MatchesScopesIgnoringCase ==
    (matching.phase = "matched" /\ matching.result.raised = "") =>
        /\ matching.result.value =
              MatchingIds(matching.alerts, matching.resource_id,
                          matching.resource_type)
        /\ \A i \in 1..Len(matching.alerts) :
              matching.alerts[i].scopes = <<>> =>
                  \A j \in 1..Len(matching.result.value) :
                      matching.result.value[j] # matching.alerts[i].id

\* the value of the field of the criteria that a leaf names
CriteriaValue(criteria, field) ==
    CASE field = FIELD_GROUP -> criteria.resource_group
      [] field = FIELD_ID    -> criteria.resource_id
      [] OTHER               -> criteria.resource_type

\* the trees the claim speaks of: booleans, allOf and anyOf of such trees,
\* and field/equals leaves over the three fields
RECURSIVE WellFormed(_)
WellFormed(expr) ==
    CASE expr.kind = "bool" -> TRUE
      [] expr.kind = "dict" /\ expr.keys = {"allOf"} ->
            \A i \in 1..Len(expr.allOf) : WellFormed(expr.allOf[i])
      [] expr.kind = "dict" /\ expr.keys = {"anyOf"} ->
            \A i \in 1..Len(expr.anyOf) : WellFormed(expr.anyOf[i])
      [] expr.kind = "dict" /\ expr.keys = {"field", "equals"} ->
            /\ expr.field \in {FIELD_GROUP, FIELD_ID, FIELD_TYPE}
            /\ Truthy(expr.equals) /\ expr.equals # NotAString
      [] OTHER -> FALSE

\* the boolean value of a well-formed tree
RECURSIVE Holds(_, _)
Holds(expr, criteria) ==
    CASE expr.kind = "bool" -> expr.value
      [] expr.keys = {"allOf"} ->
            \A i \in 1..Len(expr.allOf) : Holds(expr.allOf[i], criteria)
      [] expr.keys = {"anyOf"} ->
            \E i \in 1..Len(expr.anyOf) : Holds(expr.anyOf[i], criteria)
      [] OTHER ->
            SameIgnoringCase(CriteriaValue(criteria, expr.field), expr.equals)

\* the criteria of the resource being matched
Criteria == CriteriaOf(matching.resource_id, matching.resource_type)

\* C20: evaluate_condition returns the boolean value of a well-formed tree: a
\* literal is itself, allOf is the conjunction and anyOf the disjunction of
\* the sub-conditions, a leaf is true iff the criteria value of its field
\* equals its value ignoring case; allOf[resourceGroup = AB, resourceType =
\* ns/hn] is true for group Ab with type Ns/Hn or ns/hn and false for the
\* other group.
C20_EvaluatesConditionTree ==
    (matching.phase = "evaluated" /\ WellFormed(matching.eval[1].expr)) =>
        /\ matching.eval[1].value =
              (IF Holds(matching.eval[1].expr, Criteria) THEN "True" ELSE "False")
        /\ matching.eval[1].expr = GroupAndType =>
              (matching.eval[1].value = "True" <=> matching.resource_id = RID_AB)

\* the allOf of a group leaf and a type leaf was evaluated for a resource
\* whose group and type differ from the leaves in letter case only
C20_Witness ==
    /\ matching.phase = "evaluated"
    /\ matching.eval[1].expr = GroupAndType
    /\ matching.resource_id = RID_AB
    /\ matching.resource_type = TYPE_STORED
    /\ matching.eval[1].value = "True"

\* the node has one of the shapes evaluate_condition is written for: a
\* boolean, an allOf/anyOf combinator, a leaf with exactly the keys field and
\* equals holding strings
ParsableNode(expr) ==
    \/ expr.kind = "bool"
    \/ expr.kind = "dict" /\ expr.keys \in {{"allOf"}, {"anyOf"}}
    \/ /\ expr.kind = "dict"
       /\ expr.keys = {"field", "equals"}
       /\ Truthy(expr.field) /\ expr.field # NotAString
       /\ Truthy(expr.equals) /\ expr.equals # NotAString

\* the tree holds a node of another shape, at any depth
RECURSIVE HasUnparsableNode(_)
HasUnparsableNode(expr) ==
    \/ ~ParsableNode(expr)
    \/ \E i \in 1..Len(expr.allOf) : HasUnparsableNode(expr.allOf[i])
    \/ \E i \in 1..Len(expr.anyOf) : HasUnparsableNode(expr.anyOf[i])

\* the alert's condition holds an unparsable node
UnparsableAlert(alert) ==
    alert.condition # <<>> /\ HasUnparsableNode(alert.condition[1])

\* C21: no exception escapes find_matching_alert_ids, and an alert whose
\* condition tree holds an unparsable node, wherever it sits, is not among
\* the ids returned.
C21_UnparsableIsNonMatch ==
    matching.phase = "matched" =>
        /\ matching.result.raised = ""
        /\ \A i \in 1..Len(matching.alerts) :
              UnparsableAlert(matching.alerts[i]) =>
                  \A j \in 1..Len(matching.result.value) :
                      matching.result.value[j] # matching.alerts[i].id

-----------------------------------------------------------------------------
\* Properties of the handlers under faults

\* the latest invocation named a resource the provider no longer has
NotFound == powerLog.handler # "" /\ ~powerLog.found

\* C22: an invocation for a resource that no longer exists does nothing (no
\* provider start or stop, no tag write, no enqueue, no suppression) and
\* completes without raising.
C22_NotFoundIsNothingToDo ==
    NotFound =>
        /\ powerLog.raised = ""
        /\ powerLog.call = ""
        /\ powerLog.tagWrites = <<>>
        /\ powerLog.enqueued = <<>>
        /\ ~powerLog.suppressed /\ ~powerLog.reenabled

\* the step takes a message that fails the schema off the head of the queue
TakesMalformed(schema, queue, queueAfter) ==
    /\ queue # <<>>
    /\ queueAfter = Tail(queue)
    /\ model_validate_json(schema, Head(queue)) # ""

\* the step raises the validation error for the message and changes nothing
\* at the provider (resource, tags, operations, alert rule)
RaisesValidationError(body) ==
    /\ powerLog'.raised = "ValidationError"
    /\ powerLog'.msg = <<body>>
    /\ powerLog'.call = "" /\ powerLog'.tagWrites = <<>> /\ powerLog'.enqueued = <<>>
    /\ UNCHANGED <<res, ops, alertRule, scanLog, produced>>

\* C23: a SubscriptionCheck, PowerAction or DeferredCheck message that fails
\* schema validation makes its handler raise the validation error, with no
\* provider call, no tag write and no enqueue.
C23_MalformedMessageRaises ==
    [][ /\ TakesMalformed("SubscriptionCheck", subQueue, subQueue') =>
              RaisesValidationError(Head(subQueue))
              /\ UNCHANGED <<eventQueue, checkQueue>>
        /\ TakesMalformed("ResourcePowerAction", eventQueue, eventQueue') =>
              RaisesValidationError(Head(eventQueue))
              /\ UNCHANGED <<subQueue, checkQueue>>
        /\ TakesMalformed("DeferredWaitPowerActionCheck", checkQueue, checkQueue') =>
              RaisesValidationError(Head(checkQueue))
              /\ UNCHANGED <<subQueue, eventQueue>> ]_vars

\* a malformed deferred check was rejected while an operation was under way
C23_Witness ==
    /\ powerLog.raised = "ValidationError"
    /\ powerLog.handler = "process_powermgmt_event_check"
    /\ \E token \in 1..Len(ops) : ops[token].status = "inprogress"

\* malformed messages were rejected by the other two handlers
C23_WitnessOthers ==
    /\ powerLog.raised = "ValidationError"
    /\ powerLog.handler \in {"process_sub_from_queue", "process_powermgmt_event"}

\* the latest invocation's provider call met 'another operation in progress'
Contended == powerLog.handler # "" /\ powerLog.contended

\* C24: a start or stop request that the provider answers with 'another
\* operation in progress', on the initial call or on a poll, is retried at
\* the call layer: the call is made more than once before anything is
\* surfaced, the poll is not given the terminal result 'failed', and the
\* deferred check's wait_retries is not consumed.
C24_ContentionRetriedAtCallLayer ==
    Contended =>
        /\ powerLog.attempts > 1
        /\ powerLog.result # "failed"
        /\ \A i \in 1..Len(powerLog.enqueued) :
              powerLog.enqueued[i].wait_retries = powerLog.wait_retries

\* the scan ran on a Monday at 18:02 without last_check and saw the VM
\* running
ScannedAt1802 ==
    /\ scans = 1
    /\ scanLog.last_check = NoTime
    /\ Weekday(DayOf(scanLog.now)) = 0
    /\ MinuteOfDay(scanLog.now) = 18 * 60 + 2
    /\ scanLog.seen[1].power_state = "running"

\* the deferred check the handler sends for the stop it issued
FirstCheck ==
    DeferredWaitPowerActionCheck(PowerAction(scanLog.seen[1], RESOURCE_ACTION_STOP),
                                 RESOURCE_TAGVAL_STOP, 1, 0)

\* C25: a running VM tagged PowerOff = '0 18 * * 1,2,3,4,5' without a
\* power-on tag, scanned on a Monday at 18:02 with no prior check, gets
\* exactly one 'stop' action; handling it issues one provider stop and
\* enqueues one deferred check with wait_retries 0; a poll that ends
\* 'succeeded' writes 'Auto-stopped' with the last-updated timestamp and
\* enqueues nothing.
C25_EndToEndStop ==
    ScannedAt1802 =>
        /\ scanLog.outcome.enqueued = <<RESOURCE_ACTION_STOP>>
        /\ produced = 1
        /\ Len(eventQueue) <= 1
        /\ Handled =>
              /\ powerLog.call = "stop"
              /\ Len(ops) = 1
              /\ powerLog.enqueued = <<FirstCheck>>
              /\ checkQueue = <<FirstCheck>>
        /\ Polled /\ powerLog.result = "succeeded" =>
              /\ powerLog.tagWrites = <<RESOURCE_TAGVAL_STOP>>
              /\ res.tags["_POWERMGMT_STATUS_"] = StatusText(RESOURCE_TAGVAL_STOP)
              /\ res.tags["_POWERMGMT_LASTUPDATED_"] = now
              /\ powerLog.enqueued = <<>>
              /\ checkQueue = <<>> /\ eventQueue = <<>>

\* the stop ran end to end: scanned at 18:02, stopped, polled more than
\* once, and the poll that succeeded wrote the tags
C25_Witness ==
    /\ ScannedAt1802
    /\ Polled /\ powerLog.result = "succeeded" /\ powerLog.wait_retries > 0
    /\ res.power_state = "deallocated"
    /\ res.tags["_POWERMGMT_STATUS_"] = StatusText(RESOURCE_TAGVAL_STOP)

\* two croncheck entries were evaluated on the same last_check, current
\* time, cron and opposing cron
SameDecisionInputs(a, b) ==
    /\ a.last_check = b.last_check
    /\ a.now = b.now
    /\ a.cron = b.cron
    /\ a.override = b.override

-----------------------------------------------------------------------------
\* Properties of the provider calls and their order

\* the handler issued no provider call and enqueued no deferred check
NothingIssued ==
    /\ powerLog.call = "" /\ powerLog.enqueued = <<>> /\ powerLog.token = 0

\* C27: the power-action handler issues a provider start only for 'start' or
\* 'start_for_updates' on a resource it fetched in a startable state, and a
\* provider stop only for 'stop' or 'stop_post_updates' on a resource it
\* fetched in a stoppable state; a plain 'start' or 'stop' whose guard fails
\* issues no provider call and enqueues no deferred check.
C27_CallsGuardedByPreState ==
    Handled =>
        /\ powerLog.call = "start" =>
              /\ IsStartAction(powerLog.action)
              /\ in_startable_state(Fetched)
        /\ powerLog.call = "stop" =>
              /\ powerLog.action \in
                    {RESOURCE_ACTION_STOP, RESOURCE_ACTION_STOP_POST_UPDATES}
              /\ in_stoppable_state(Fetched)
        /\ powerLog.action = RESOURCE_ACTION_START /\ ~in_startable_state(Fetched) =>
              NothingIssued
        /\ powerLog.action = RESOURCE_ACTION_STOP /\ ~in_stoppable_state(Fetched) =>
              NothingIssued

\* a 'stop' was handled for a resource fetched while it was not stoppable
C27_Witness ==
    /\ HandledAction(RESOURCE_ACTION_STOP)
    /\ ~in_stoppable_state(Fetched)
    /\ NothingIssued

\* a start and a stop were issued on guards that held
C27_WitnessIssued ==
    /\ Handled /\ powerLog.call # ""
    /\ Len(ops) = 2 /\ ops[1].kind # ops[2].kind

\* the positions of a call among the latest invocation's calls
StepsOf(call) == {i \in 1..Len(powerLog.steps) : powerLog.steps[i] = call}

\* the latest invocation handled a 'stop' or a 'stop_post_updates'
HandledStop ==
    Handled /\ powerLog.action \in
                  {RESOURCE_ACTION_STOP, RESOURCE_ACTION_STOP_POST_UPDATES}

\* C28: a 'stop' or 'stop_post_updates' that carries an alert id suppresses
\* the alerts before the provider stop is issued in that invocation; one
\* that carries none makes no suppression call.
C28_SuppressionBeforeStop ==
    HandledStop =>
        IF powerLog.msg[1].alert_ids # <<>>
        THEN /\ powerLog.suppressed
             /\ \A i \in StepsOf("stop") :
                   \E j \in StepsOf("suppress_alerts") : j < i
        ELSE /\ ~powerLog.suppressed
             /\ StepsOf("suppress_alerts") = {}
             /\ alertRule = "absent"

\* a flexible server with an alert was stopped: suppressed, tagged, stopped
C28_Witness ==
    /\ HandledAction(RESOURCE_ACTION_STOP)
    /\ powerLog.msg[1].alert_ids # <<>>
    /\ powerLog.steps = <<"suppress_alerts", "add_tags", "stop">>
    /\ alertRule = "enabled"

\* a stop without alert ids was issued
C28_WitnessNoAlerts ==
    /\ HandledStop /\ powerLog.msg[1].alert_ids = <<>> /\ powerLog.call = "stop"

\* the latest invocation issued the provider stop of a scheduled 'stop'
IssuedScheduledStop ==
    HandledAction(RESOURCE_ACTION_STOP) /\ powerLog.call = "stop"

\* C29: around a scheduled stop, a flexible server's 'Auto-stopped' tags are
\* written before the stop call and no poll writes a tag; an application
\* gateway is tagged neither by the handler nor by a poll; any other type is
\* not tagged before the stop call, and 'Auto-stopped' is written only by a
\* poll whose operation succeeded.
C29_TagOrderByType ==
    /\ IssuedScheduledStop =>
          CASE Fetched.rtype = "pgsql" ->
                  /\ powerLog.tagWrites = <<RESOURCE_TAGVAL_STOP>>
                  /\ \A i \in StepsOf("stop") : \E j \in StepsOf("add_tags") : j < i
                  /\ powerLog.enqueued[1].tag_text = ""
            [] Fetched.rtype = "agw" ->
                  /\ powerLog.tagWrites = <<>>
                  /\ powerLog.enqueued[1].tag_text = ""
            [] OTHER ->
                  /\ powerLog.tagWrites = <<>>
                  /\ StepsOf("add_tags") = {}
                  /\ powerLog.enqueued[1].tag_text = RESOURCE_TAGVAL_STOP
    /\ PolledAction(RESOURCE_ACTION_STOP) =>
          IF Fetched.rtype \in {"pgsql", "agw"}
          THEN powerLog.tagWrites = <<>>
          ELSE powerLog.tagWrites # <<>> =>
                  /\ powerLog.tagWrites = <<RESOURCE_TAGVAL_STOP>>
                  /\ ops[powerLog.token].status = "succeeded"
    /\ res.rtype = "agw" /\ (\A token \in 1..Len(ops) : ops[token].kind = "stop") =>
          res.tags["_POWERMGMT_STATUS_"] = NoStatus

\* the stop of a flexible server succeeded: the tag was written by the
\* handler and the poll wrote none
C29_Witness ==
    /\ PolledAction(RESOURCE_ACTION_STOP) /\ powerLog.result = "succeeded"
    /\ Fetched.rtype = "pgsql"
    /\ res.tags["_POWERMGMT_STATUS_"] = StatusText(RESOURCE_TAGVAL_STOP)
    /\ powerLog.tagWrites = <<>>

\* the stop of an application gateway succeeded untagged
C29_WitnessGateway ==
    /\ PolledAction(RESOURCE_ACTION_STOP) /\ powerLog.result = "succeeded"
    /\ Fetched.rtype = "agw" /\ res.power_state = "stopped"

\* the stop of a VM succeeded and its poll wrote the tag
C29_WitnessOther ==
    /\ PolledAction(RESOURCE_ACTION_STOP) /\ powerLog.result = "succeeded"
    /\ Fetched.rtype = "vm"
    /\ res.tags["_POWERMGMT_STATUS_"] = StatusText(RESOURCE_TAGVAL_STOP)

\* the latest poll found the operation succeeded and an outcome tag
\* pending, and the provider refused the tag write
TagWriteFailed == Polled /\ powerLog.tagFailed

\* the check as the latest poll sent it again
Resent == [powerLog.msg[1] EXCEPT !.wait_retries = powerLog.wait_retries + 1]

\* C30: a poll that reports 'succeeded' with an outcome tag pending whose
\* tag write fails is treated as in progress: wait_retries is incremented
\* and, below the bound, the check is sent again; no alert is re-enabled in
\* that invocation; the next poll of the check, when the operation has
\* succeeded and the poll itself does not fail, writes the tag again.
C30_TagWriteFailureIsInProgress ==
    [][ /\ TagWriteFailed' =>
              /\ res'.tags = res.tags
              /\ ~powerLog'.reenabled /\ alertRule' = alertRule
              /\ IF RetriesLeft(powerLog'.wait_retries + 1)
                 THEN /\ powerLog'.result = "inprogress"
                      /\ powerLog'.enqueued =
                            <<[powerLog'.msg[1] EXCEPT
                                  !.wait_retries = powerLog'.wait_retries + 1]>>
                      /\ checkQueue' # <<>>
                 ELSE /\ powerLog'.result = "timeout"
                      /\ powerLog'.enqueued = <<>>
        /\ ( /\ TagWriteFailed /\ powerLog.result = "inprogress"
             /\ Polled' /\ powerLog'.msg = <<Resent>>
             /\ ops[powerLog.token].status = "succeeded"
             /\ powerLog'.result \notin {"failed", "failure"} ) =>
              powerLog'.tagWrites = powerLog.tagWrites ]_vars

\* a second poll of a succeeded operation wrote the tag
C30_Witness ==
    /\ Polled /\ powerLog.result = "succeeded" /\ powerLog.wait_retries = 1
    /\ powerLog.tagWrites # <<>>
    /\ res.tags["_POWERMGMT_STATUS_"] = StatusText(powerLog.tagWrites[1])
    /\ ops[powerLog.token].status = "succeeded"

\* the tag write of a started resource with alerts failed: not re-enabled
C30_WitnessFailed ==
    /\ TagWriteFailed /\ powerLog.action = RESOURCE_ACTION_START
    /\ powerLog.msg[1].alert_ids # <<>> /\ alertRule # "disabled"

-----------------------------------------------------------------------------
\* Properties of the alert-suppression rule and of failed polls

\* the latest poll ended 'succeeded' for a scheduled 'start' that carries
\* at least one correlated alert id
SucceededStartWithAlerts ==
    /\ powerLog.result = "succeeded"
    /\ powerLog.action = RESOURCE_ACTION_START
    /\ powerLog.msg[1].alert_ids # <<>>

\* C31: a deferred-check poll disables the alert-suppression rule if and
\* only if its final result is 'succeeded', the action is 'start' and the
\* action carries at least one alert id; the rule is disabled by nothing
\* else, so never for 'stop', 'stop_post_updates' or 'start_for_updates' and
\* never on an in-progress, failed or timed-out poll.
C31_ReenableOnSuccessfulStart ==
    [][ /\ Polled' => (powerLog'.reenabled <=> SucceededStartWithAlerts')
        /\ Polled' /\ powerLog'.reenabled => alertRule' = "disabled"
        /\ alertRule' = "disabled" /\ alertRule # "disabled" =>
              Polled' /\ powerLog'.reenabled ]_vars

\* a scheduled start with an alert id succeeded and the rule was disabled
C31_Witness ==
    /\ Polled /\ SucceededStartWithAlerts
    /\ powerLog.reenabled /\ alertRule = "disabled"

\* a start for a maintenance window succeeded with an alert id, the rule
\* enabled by an earlier stop: it stays enabled
C31_WitnessStartForUpdates ==
    /\ PolledAction(RESOURCE_ACTION_START_PRE_UPDATES)
    /\ powerLog.result = "succeeded" /\ powerLog.msg[1].alert_ids # <<>>
    /\ ~powerLog.reenabled /\ alertRule = "enabled"

\* the step is a deferred-check poll: it changes the queue of checks or
\* what the latest invocation is logged to have done
PollStep == Polled' /\ (checkQueue' # checkQueue \/ powerLog' # powerLog)

\* the latest poll ended in a provider-side failure: the manager raised an
\* HTTP error, logged as 'failed', or reported a result that is neither
\* 'succeeded' nor 'inprogress'
PollFailed == Polled /\ powerLog.result \in {"failed", "failure"}

\* C32: a provider-side failure during polling is terminal: the poll is
\* logged with the failure as its result, writes no tag, leaves wait_retries
\* as the check carried it and enqueues no further deferred check: the
\* check is taken off the queue and nothing is put on it.
C32_PollFailureIsTerminal ==
    [][ PollStep /\ PollFailed' =>
           /\ powerLog'.tagWrites = <<>>
           /\ res'.tags = res.tags
           /\ powerLog'.logged_retries = powerLog'.msg[1].wait_retries
           /\ powerLog'.enqueued = <<>>
           /\ checkQueue' = Tail(checkQueue)
           /\ ~powerLog'.reenabled /\ alertRule' = alertRule ]_vars

\* the poll of a VM's stop met an HTTP error after an in-progress poll
C32_Witness ==
    /\ PollFailed /\ powerLog.result = "failed"
    /\ powerLog.msg[1].wait_retries = 1 /\ powerLog.logged_retries = 1
    /\ powerLog.msg[1].tag_text # "" /\ checkQueue = <<>>

\* the flexible server's stop reported 'failure'
C32_WitnessFailure ==
    /\ PollFailed /\ powerLog.result = "failure" /\ Fetched.rtype = "pgsql"

-----------------------------------------------------------------------------
\* Properties of the scan's state guards

\* the latest scan saw the resource
Scanned == scanLog.seen # <<>>

\* C33: for every resource type and power state, in_stoppable_state and
\* in_startable_state are never both true; so one scan enqueues at most one
\* power action for the resource, a stop or a start and never both, also
\* when the power-on and power-off crons have occurrences in the same
\* window or at the same instant.
C33_StoppableStartableExclusive ==
    /\ \A rtype \in ScannedResourceTypes :
          \A power_state \in ListedPowerStates(rtype) \cup PowerStates(rtype) :
             LET r == [res EXCEPT !.rtype = rtype, !.power_state = power_state]
             IN  ~(in_stoppable_state(r) /\ in_startable_state(r))
    /\ Scanned =>
          /\ ~(in_stoppable_state(scanLog.seen[1]) /\ in_startable_state(scanLog.seen[1]))
          /\ Len(scanLog.outcome.enqueued) <= 1
          /\ Len(eventQueue) <= scans
          /\ \A i, j \in 1..Len(scanLog.outcome.cronchecks) :
                /\ scanLog.outcome.cronchecks[i].actioning
                /\ scanLog.outcome.cronchecks[j].actioning
                => i = j

\* both crons have their occurrence at 18:00, inside the scan's window, and
\* the scan sent one action
C33_Witness ==
    /\ Scanned
    /\ scanLog.seen[1].tags["PowerOn"] = T_18
    /\ scanLog.seen[1].tags["PowerOff"] = T_18
    /\ scanLog.now = At(WorkingDay, 18, 2, 0)
    /\ scanLog.last_check = At(WorkingDay, 17, 50, 0)
    /\ Len(scanLog.outcome.enqueued) = 1

\* a resource in a state between stopped and started was scanned with both
\* crons due: a flexible server that is stopping gets no action
C33_WitnessNeither ==
    /\ Scanned
    /\ scanLog.seen[1].rtype = "pgsql" /\ scanLog.seen[1].power_state = "stopping"
    /\ scanLog.seen[1].tags["PowerOn"] = T_18
    /\ scanLog.seen[1].tags["PowerOff"] = T_18
    /\ scanLog.now = At(WorkingDay, 18, 2, 0)
    /\ scanLog.outcome.enqueued = <<>>

-----------------------------------------------------------------------------
\* Properties of the maintenance window under interleaving

\* the window's start_for_updates action has been handled (it issued the
\* start, or tagged the running VM) and its post-maintenance event has not
AfterStartForUpdates ==
    /\ window = "in"
    /\ \/ \E token \in 1..Len(ops) :
             ops[token].action = RESOURCE_ACTION_START_PRE_UPDATES
       \/ InMaintenanceWindow(res)

\* the start issued for maintenance is still being polled and the tag 'In
\* maintenance window (was stopped)' has not been written
StartForUpdatesPending ==
    /\ window = "in"
    /\ \E i \in 1..Len(checkQueue) :
          checkQueue[i].action = RESOURCE_ACTION_START_PRE_UPDATES
    /\ ~InMaintenanceWindow(res)

\* C34: for a VM, no provider stop is issued for a 'stop' action between the
\* handling of the window's start_for_updates action and the handling of
\* its post-maintenance event, in particular not while the start issued for
\* maintenance is still in progress and its tag has not been written.
C34_NoScheduledStopInsideWindow ==
    /\ AfterStartForUpdates => ~IssuedScheduledStop
    /\ StartForUpdatesPending => ~IssuedScheduledStop

\* the values the maintenance workflow writes to the status tag
MaintenanceWorkflowTagvals ==
    RESOURCE_TAGVALS_IN_MAINTENANCE_WINDOW \cup
        { RESOURCE_TAGVAL_INFO_POST_MAINTENANCE,
          RESOURCE_TAGVAL_STOP_POST_MAINTENANCE }

\* C35: once the status tag holds an in-maintenance-window value, the next
\* value written to it is another in-maintenance-window value, 'Maintenance
\* window completed' or 'Auto-stopped (post maintenance)': never the outcome
\* tag of a scheduled start or stop that was in flight, nor a tick's
\* invalid-tag diagnostic.
C35_MaintenanceOwnsStatusTag ==
    [][ /\ InMaintenanceWindow(res)
        /\ res'.tags["_POWERMGMT_STATUS_"] # res.tags["_POWERMGMT_STATUS_"]
        => PowerMgmtStatus(res') \in MaintenanceWorkflowTagvals ]_vars

\* the latest invocation handled a stop action, suppressed the alerts and
\* left the resource running: no provider stop was issued
SuppressedWithoutStop == HandledStop /\ powerLog.suppressed /\ powerLog.call # "stop"

\* C36: a handling of 'stop' or 'stop_post_updates' that enables the
\* alert-suppression rule issues a provider stop in the same invocation: no
\* invocation suppresses the alerts of a resource it leaves running.
C36_SuppressedOnlyWhenStopped ==
    HandledStop /\ powerLog.suppressed => powerLog.call = "stop"

\* a 'stop' deferred inside a maintenance window suppressed the alerts of
\* the VM it left running
C36_ReachedInsideWindow ==
    /\ SuppressedWithoutStop /\ StopInsideWindow
    /\ alertRule = "enabled" /\ IsRunning(res) /\ ops = <<>>

\* the latest poll saw a start issued by this system succeed
StartCompleted ==
    Polled /\ powerLog.result = "succeeded" /\ IsStartAction(powerLog.action)

\* C37: when a stop action has enabled the alert-suppression rule, the next
\* successful start of the resource by this system, a scheduled 'start' or a
\* 'start_for_updates', disables it again: no poll that sees such a start
\* succeeded leaves the rule enabled.
C37_SuppressionUndoneByStart ==
    StartCompleted => alertRule # "enabled"

\* the part of C37 the code keeps: a scheduled 'start' that succeeded
\* leaves no rule enabled
C37_UndoneByScheduledStart ==
    StartCompleted /\ powerLog.action = RESOURCE_ACTION_START =>
        alertRule # "enabled"

\* a scheduled stop suppressed the alerts and deallocated the VM, the start
\* for the maintenance window succeeded, and the rule is still enabled
C37_ReachedAfterStop ==
    /\ StartCompleted /\ powerLog.action = RESOURCE_ACTION_START_PRE_UPDATES
    /\ Len(ops) = 2
    /\ ops[1].action = RESOURCE_ACTION_STOP /\ ops[1].status = "succeeded"
    /\ ops[2].status = "succeeded" /\ res.power_state = "running"
    /\ alertRule = "enabled"

-----------------------------------------------------------------------------
\* Properties of the audit tags

\* the status texts that record the outcome of a provider call, and the
\* action whose call each of them records
OutcomeTagvals ==
    { RESOURCE_TAGVAL_STOP, RESOURCE_TAGVAL_START,
      RESOURCE_TAGVAL_STOP_POST_MAINTENANCE,
      RESOURCE_TAGVAL_STARTED_FOR_MAINTENANCE }

ActionOfTagval(text) ==
    CASE text = RESOURCE_TAGVAL_STOP -> RESOURCE_ACTION_STOP
      [] text = RESOURCE_TAGVAL_START -> RESOURCE_ACTION_START
      [] text = RESOURCE_TAGVAL_STOP_POST_MAINTENANCE ->
            RESOURCE_ACTION_STOP_POST_UPDATES
      [] OTHER -> RESOURCE_ACTION_START_PRE_UPDATES

\* the provider operations of an action that have succeeded and whose
\* chain of polls has ended
SucceededAndObserved(action) ==
    {token \in 1..Len(ops) :
        /\ ops[token].action = action
        /\ ops[token].status = "succeeded"
        /\ ops[token].closed}

\* C38 as claimed: for every resource type, an outcome status is on the
\* resource only if a provider call of its action, issued by this system,
\* has succeeded and a poll has observed it: it is never there for an
\* operation that has failed, timed out or is still in progress.
C38_TagOnlyAfterSucceededOperation ==
    \A text \in OutcomeTagvals :
        PowerMgmtStatus(res) = text =>
            SucceededAndObserved(ActionOfTagval(text)) # {}

\* the step writes the outcome status text to the resource
WritesOutcome(text) ==
    /\ PowerMgmtStatus(res') = text
    /\ res'.tags["_POWERMGMT_STATUS_"] # res.tags["_POWERMGMT_STATUS_"]

\* C38 amended: an outcome status is written only by a poll of a provider
\* call of its action whose result is 'succeeded', the operation having
\* succeeded at the provider, with two exceptions: a flexible server's
\* 'Auto-stopped' is written by the handler of the 'stop' before it issues
\* the stop call, whatever becomes of the stop; and the poll of a VM's start
\* reports 'succeeded' while the operation is still in progress once the VM
\* is running or starting.
C38_TagWrittenBySucceededPoll ==
    [][ \A text \in OutcomeTagvals :
           WritesOutcome(text) =>
              IF Handled'
              THEN /\ res.rtype = "pgsql" /\ text = RESOURCE_TAGVAL_STOP
                   /\ powerLog'.action = RESOURCE_ACTION_STOP
                   /\ powerLog'.steps = Steps(Transition(powerLog'.suppressed,
                                                         <<text>>, "stop", ""))
              ELSE /\ Polled' /\ powerLog'.result = "succeeded"
                   /\ powerLog'.action = ActionOfTagval(text)
                   /\ ops[powerLog'.token].action = ActionOfTagval(text)
                   /\ ~(res.rtype = "pgsql" /\ text = RESOURCE_TAGVAL_STOP)
                   /\ \/ ops[powerLog'.token].status = "succeeded"
                      \/ /\ res.rtype = "vm" /\ IsStartAction(powerLog'.action)
                         /\ ops[powerLog'.token].status = "inprogress"
                         /\ IsRunning(res) ]_vars

\* a VM's stop succeeded and the poll that saw it wrote 'Auto-stopped'
C38_Witness ==
    /\ Polled /\ powerLog.result = "succeeded"
    /\ res.rtype = "vm" /\ PowerMgmtStatus(res) = RESOURCE_TAGVAL_STOP
    /\ powerLog.tagWrites = <<RESOURCE_TAGVAL_STOP>>
    /\ powerLog.token \in SucceededAndObserved(RESOURCE_ACTION_STOP)

\* a flexible server carries 'Auto-stopped' and its stop failed
C38_WitnessTaggedBeforeStop ==
    /\ res.rtype = "pgsql" /\ PowerMgmtStatus(res) = RESOURCE_TAGVAL_STOP
    /\ Len(ops) = 1 /\ ops[1].status = "failed" /\ res.power_state = "ready"

\* a VM carries 'Auto-started' and its start failed after the tag was
\* written
C38_WitnessStartInferred ==
    /\ res.rtype = "vm" /\ PowerMgmtStatus(res) = RESOURCE_TAGVAL_START
    /\ Len(ops) = 1 /\ ops[1].status = "failed"

-----------------------------------------------------------------------------
\* Properties of the exemption tag

\* the resource carried the exemption tag when the latest power action was
\* handled
HandledExempt == Handled /\ Truthy(Fetched.tags["_POWERMGMT_EXEMPT_"])

\* the latest scan saw the resource carrying the exemption tag
ScannedExempt == Scanned /\ Truthy(scanLog.seen[1].tags["_POWERMGMT_EXEMPT_"])

\* C39: no provider start or stop is issued for a resource that carries the
\* exemption tag when its power action is handled, also when the action was
\* enqueued before the tag was added; and a scan writes no tag on an exempt
\* resource.
C39_ExemptionAtActionTime ==
    /\ HandledExempt => powerLog.call = "" /\ powerLog.enqueued = <<>>
    /\ ScannedExempt => scanLog.outcome.tagWrite = <<>>

\* the two parts of C39, each on its own
C39_NoCallWhenExempt ==
    HandledExempt => powerLog.call = ""

C39_NoScanWriteWhenExempt ==
    ScannedExempt => scanLog.outcome.tagWrite = <<>>

-----------------------------------------------------------------------------
\* Properties of a tag write

\* the keys an audit tag write is about
AuditKeys == {"_POWERMGMT_STATUS_", "_POWERMGMT_LASTUPDATED_"}

\* the step is a handler's tag write
TagWriteStep == held # <<>> /\ held' = <<>>

\* C40: an audit tag write changes only the two audit keys at the provider:
\* every other tag keeps the value it has there at the time of the write,
\* also when someone else changed it after the handler fetched the resource.
C40_TagWriteFrame ==
    [][ TagWriteStep =>
           \A k \in TagKeys \ AuditKeys : res'.tags[k] = res.tags[k] ]_vars

\* the part of C40 the code keeps: a write with a resource object whose
\* other tags are those the provider holds changes the audit keys only
C40_FrameWhenUnchanged ==
    [][ TagWriteStep /\ (\A k \in TagKeys \ AuditKeys : held[1].tags[k] = res.tags[k]) =>
           \A k \in TagKeys \ AuditKeys : res'.tags[k] = res.tags[k] ]_vars

====
